---------------------------- MODULE Spec2Model ----------------------------
(***************************************************************************)
(* Decision engine of the Entropy bots (kzmv/entropy): board model, move   *)
(* generation, palindrome scoring, the mover's evaluator and its           *)
(* iterative-deepening minimax with a transposition cache and a deadline.  *)
(*                                                                         *)
(* Boards are functions 0..48 -> Color ("" is the empty cell), lines and   *)
(* move lists are sequences.  A Move is a record [from, to].               *)
(***************************************************************************)
EXTENDS Integers, Sequences, FiniteSets, TLC

\* ------------------------------------------------------------ constants
COLORS == <<"R", "G", "Y", "B", "W", "K", "P">>
TOTAL_SQUARES == 49
PIECES_PER_COLOR == 7

Color == {COLORS[i] : i \in 1..Len(COLORS)} \cup {""}
Cells == 0..(TOTAL_SQUARES - 1)

\* ------------------------------------------------------------ bounds
\* colors a scored line is drawn from (the first NumLineColors of COLORS)
NumLineColors == 3

\* ------------------------------------------------------------ coordinates
indexToCoords(idx) == [row |-> idx \div 7, col |-> idx % 7]

coordsToIndex(row, col) == row * 7 + col

isValidCoordShort(row, col) == row >= 0 /\ row < 6 /\ col >= 0 /\ col < 7

isValidCoord(row, col) == row >= 0 /\ row < 7 /\ col >= 0 /\ col < 7

\* ------------------------------------------------------------ moves
\* Up, Down, Left, Right
DIRECTIONS ==
    << [dRow |-> -1, dCol |-> 0], [dRow |-> 1, dCol |-> 0],
       [dRow |-> 0, dCol |-> -1], [dRow |-> 0, dCol |-> 1] >>

\* the while(true) loop of generateLegalMoves: (row, col) is the cell reached
\* so far; step once more, stop off the board or at the first occupied cell
RECURSIVE WalkOntoBlocker(_, _, _, _, _)
WalkOntoBlocker(state, fromIdx, row, col, direction) ==
    LET r == row + direction.dRow
        c == col + direction.dCol
    IN  IF ~isValidCoord(r, c) THEN <<>>
        ELSE <<[from |-> fromIdx, to |-> coordsToIndex(r, c)]>>
                 \o (IF state[coordsToIndex(r, c)] # "" THEN <<>>
                     ELSE WalkOntoBlocker(state, fromIdx, r, c, direction))

RECURSIVE Walk(_, _, _, _, _)
Walk(state, fromIdx, row, col, direction) ==
    LET r == row + direction.dRow
        c == col + direction.dCol
    IN  IF ~isValidCoord(r, c) THEN <<>>
        ELSE IF state[coordsToIndex(r, c)] # "" THEN <<>>
        ELSE <<[from |-> fromIdx, to |-> coordsToIndex(r, c)]>>
                 \o Walk(state, fromIdx, r, c, direction)

RECURSIVE WalkDirections(_, _, _)
WalkDirections(state, fromIdx, d) ==
    IF d > Len(DIRECTIONS) THEN <<>>
    ELSE Walk(state, fromIdx, indexToCoords(fromIdx).row,
              indexToCoords(fromIdx).col, DIRECTIONS[d])
             \o WalkDirections(state, fromIdx, d + 1)

getLegalMovesForPiece(state, fromIdx) ==
    IF state[fromIdx] = "" THEN <<>> ELSE WalkDirections(state, fromIdx, 1)

\* the moves of the pieces on the cells first..last, in the order of the
\* for loop over the cells
RECURSIVE MovesFrom(_, _, _)
MovesFrom(state, first, last) ==
    IF first = last THEN getLegalMovesForPiece(state, first)
    ELSE MovesFrom(state, first, (first + last) \div 2)
             \o MovesFrom(state, (first + last) \div 2 + 1, last)

generateLegalMoves(state) == MovesFrom(state, 0, 48)

getAllLegalMoves(state) == generateLegalMoves(state)

applyMoveKeepOrigin(state, move) ==
    [state EXCEPT ![move.to] = state[move.from]]

\* the origin is emptied and the token is lost
applyMoveDropToken(state, move) == [state EXCEPT ![move.from] = ""]

\* newState[move.to] = newState[move.from]; then newState[move.from] = ''
applyMove(state, move) ==
    LET moved == [state EXCEPT ![move.to] = state[move.from]]
    IN  [moved EXCEPT ![move.from] = ""]

applyPlacement(state, position, color) == [state EXCEPT ![position] = color]

\* the empty cells from the last to the first
getEmptyPositionsDescending(state) ==
    SelectSeq([k \in 1..49 |-> 49 - k], LAMBDA i : state[i] = "")

\* the cells 0..48 in order, the empty ones kept
getEmptyPositions(state) ==
    SelectSeq([k \in 1..49 |-> k - 1], LAMBDA i : state[i] = "")

isGameOver(state) == Len(getEmptyPositions(state)) = 0

\* remaining 7 - (occurrences on the board), per color
inferRemainingColors(state) ==
    [c \in Color \ {""} |->
        PIECES_PER_COLOR - Cardinality({i \in Cells : state[i] = c})]

\* ------------------------------------------------------------ scoring
getRow(state, row) == [c \in 1..7 |-> state[row * 7 + (c - 1)]]

getColumn(state, col) == [r \in 1..7 |-> state[(r - 1) * 7 + col]]

\* seq[i] = seq[len-1-i] for i < floor(len/2), 0-based in the source
isPalindrome(seq) ==
    \A i \in 0..((Len(seq) \div 2) - 1) : seq[i + 1] = seq[Len(seq) - i]

LETTERS == <<"A", "B", "C", "D", "E", "F", "G">>

\* the first-occurrence relabeling: `letters` holds the colors seen so far,
\* in the order of their first occurrence (the Map's insertion order)
RECURSIVE SignatureFrom(_, _, _)
SignatureFrom(seq, i, mapping) ==
    IF i > Len(seq) THEN ""
    ELSE LET color == seq[i]
             known == \E k \in 1..Len(mapping) : mapping[k] = color
             m2    == IF known THEN mapping ELSE Append(mapping, color)
             k     == CHOOSE k \in 1..Len(m2) : m2[k] = color
         IN  LETTERS[k] \o SignatureFrom(seq, i + 1, m2)

\* letters by position, not by first occurrence
getPalindromeSignatureByPosition(seq) ==
    SignatureFrom([i \in 1..Len(seq) |-> i], 1, <<>>)

\* letters by the color's place in COLORS, not by first occurrence
getPalindromeSignatureByColor(seq) ==
    SignatureFrom(seq, 1, COLORS)

getPalindromeSignature(seq) == SignatureFrom(seq, 1, <<>>)

PALINDROME_SCORES ==
    [ AA |-> 2,
      ABA |-> 3, AAA |-> 7,
      ABBA |-> 6, AAAA |-> 16,
      ABCBA |-> 8, AABAA |-> 12, ABABA |-> 14, ABBBA |-> 12, AAAAA |-> 30,
      AABBAA |-> 16, ABAABA |-> 18, ABBBBA |-> 22, ABCCBA |-> 12,
      AAAAAA |-> 50,
      ABCDCBA |-> 15, AAABAAA |-> 29, AABABAA |-> 25, AABBBAA |-> 23,
      AABCBAA |-> 19, ABAAABA |-> 25, ABABABA |-> 27, ABACABA |-> 21,
      ABBABBA |-> 27, ABBBBBA |-> 37, ABBCBBA |-> 19, ABCACBA |-> 15,
      ABCBCBA |-> 21, ABCCCBA |-> 19, AAAAAAA |-> 77 ]

\* PALINDROME_SCORES[signature] || seq.length
scorePalindrome(seq) ==
    LET signature == getPalindromeSignature(seq)
    IN  IF signature \in DOMAIN PALINDROME_SCORES
           /\ PALINDROME_SCORES[signature] # 0
        THEN PALINDROME_SCORES[signature]
        ELSE Len(seq)

filledOf(sequence) == SelectSeq(sequence, LAMBDA c : c # "")

\* the inner loop: start = s .. filled.length - len
RECURSIVE ScoreStarts(_, _, _)
ScoreStarts(filled, len, s) ==
    IF s > Len(filled) - len THEN 0
    ELSE LET substring == SubSeq(filled, s + 1, s + len)
         IN  (IF isPalindrome(substring) THEN scorePalindrome(substring) ELSE 0)
             + ScoreStarts(filled, len, s + 1)

\* the outer loop: len = l .. filled.length
RECURSIVE ScoreLens(_, _)
ScoreLens(filled, l) ==
    IF l > Len(filled) THEN 0
    ELSE ScoreStarts(filled, l, 0) + ScoreLens(filled, l + 1)

scoreSequenceWholeOnly(sequence) ==
    LET filled == filledOf(sequence)
    IN  IF Len(filled) < 2 THEN 0
        ELSE IF isPalindrome(filled) THEN scorePalindrome(filled) ELSE 0

\* runs of length 1 scored too
scoreSequenceFromLengthOne(sequence) ==
    LET filled == filledOf(sequence)
    IN  IF Len(filled) < 1 THEN 0 ELSE ScoreLens(filled, 1)

scoreSequence(sequence) ==
    LET filled == filledOf(sequence)
    IN  IF Len(filled) < 2 THEN 0 ELSE ScoreLens(filled, 2)

RECURSIVE SumRows(_, _)
SumRows(state, row) ==
    IF row >= 7 THEN 0
    ELSE scoreSequence(getRow(state, row)) + SumRows(state, row + 1)

RECURSIVE SumCols(_, _)
SumCols(state, col) ==
    IF col >= 7 THEN 0
    ELSE scoreSequence(getColumn(state, col)) + SumCols(state, col + 1)

calculateFullBoardScore(state) == SumRows(state, 0) + SumCols(state, 0)

calculateScoreDeltaOriginOnly(oldState, newState, move) ==
    LET fromRow == indexToCoords(move.from).row
        fromCol == indexToCoords(move.from).col
    IN  (scoreSequence(getRow(newState, fromRow))
         + scoreSequence(getColumn(newState, fromCol)))
        - (scoreSequence(getRow(oldState, fromRow))
           + scoreSequence(getColumn(oldState, fromCol)))

\* rescore the origin row and column, and the destination's when they differ
calculateScoreDelta(oldState, newState, move) ==
    LET fromRow == indexToCoords(move.from).row
        fromCol == indexToCoords(move.from).col
        toRow   == indexToCoords(move.to).row
        toCol   == indexToCoords(move.to).col
        oldScore ==
            scoreSequence(getRow(oldState, fromRow))
            + scoreSequence(getColumn(oldState, fromCol))
            + (IF toRow # fromRow
               THEN scoreSequence(getRow(oldState, toRow)) ELSE 0)
            + (IF toCol # fromCol
               THEN scoreSequence(getColumn(oldState, toCol)) ELSE 0)
        newScore ==
            scoreSequence(getRow(newState, fromRow))
            + scoreSequence(getColumn(newState, fromCol))
            + (IF toRow # fromRow
               THEN scoreSequence(getRow(newState, toRow)) ELSE 0)
            + (IF toCol # fromCol
               THEN scoreSequence(getColumn(newState, toCol)) ELSE 0)
    IN  newScore - oldScore

\* ------------------------------------------------------------ phase
determineGamePhaseInclusive(state) ==
    LET filledCount == Cardinality({i \in Cells : state[i] # ""})
    IN  IF filledCount <= 16 THEN "early"
        ELSE IF filledCount <= 35 THEN "mid"
        ELSE "late"

determineGamePhase(state) ==
    LET filledCount == Cardinality({i \in Cells : state[i] # ""})
    IN  IF filledCount < 16 THEN "early"
        ELSE IF filledCount < 35 THEN "mid"
        ELSE "late"

\* chaosNextTurnHybrid's switch (phase).  The weights 0.4, 0.6, 0.8, 0.2 are
\* carried in tenths.
hybridWeights(phase) ==
    IF phase = "early" THEN [spoilerWeight |-> 4, gapWeight |-> 6]
    ELSE IF phase = "mid" THEN [spoilerWeight |-> 6, gapWeight |-> 4]
    ELSE [spoilerWeight |-> 8, gapWeight |-> 2]

\* ------------------------------------------------------------ analysis
CountOf(sequence, c) == Cardinality({i \in 1..Len(sequence) : sequence[i] = c})

\* count = 1 when the first and the last filled cell match
checkNearPalindromes(sequence) ==
    LET filled == filledOf(sequence)
    IN  IF Len(filled) >= 2 /\ filled[1] = filled[Len(filled)] THEN 1 ELSE 0

analyzeSequencePotential(sequence) ==
    LET emptyCount == CountOf(sequence, "")
    IN  [almostComplete |->
             IF emptyCount = 1 THEN checkNearPalindromes(sequence) ELSE 0,
         twoMove |->
             IF emptyCount = 2 THEN checkNearPalindromes(sequence) ELSE 0,
         threeMove |->
             IF emptyCount = 3 THEN checkNearPalindromes(sequence) ELSE 0]

\* rows 0..6, then columns 0..6
BoardLines(state) ==
    [k \in 1..14 |-> IF k <= 7 THEN getRow(state, k - 1)
                     ELSE getColumn(state, k - 8)]

RECURSIVE PotentialFrom(_, _)
PotentialFrom(lines, k) ==
    IF k > Len(lines)
    THEN [almostComplete |-> 0, twoMove |-> 0, threeMove |-> 0]
    ELSE LET potential == analyzeSequencePotential(lines[k])
             rest == PotentialFrom(lines, k + 1)
         IN  [almostComplete |-> potential.almostComplete + rest.almostComplete,
              twoMove |-> potential.twoMove + rest.twoMove,
              threeMove |-> potential.threeMove + rest.threeMove]

analyzePatternPotential(state) == PotentialFrom(BoardLines(state), 1)

calculatePatternPotential(state) ==
    LET analysis == analyzePatternPotential(state)
    IN  analysis.almostComplete * 10 + analysis.twoMove * 5
            + analysis.threeMove * 2

\* c4, d4, c5, d5
calculateCenterControl(state) ==
    Cardinality({idx \in {coordsToIndex(2, 3), coordsToIndex(3, 3),
                          coordsToIndex(2, 4), coordsToIndex(3, 4)} :
                    state[idx] # ""})

calculateEdgeControl(state) ==
    Cardinality({i \in Cells :
        /\ (indexToCoords(i).row = 0 \/ indexToCoords(i).row = 6
            \/ indexToCoords(i).col = 0 \/ indexToCoords(i).col = 6)
        /\ state[i] # ""})

\* the colors that appear 2+ times in the line
countColorGroups(sequence) ==
    Cardinality({c \in Color \ {""} : CountOf(sequence, c) >= 2})

RECURSIVE GroupsFrom(_, _)
GroupsFrom(lines, k) ==
    IF k > Len(lines) THEN 0
    ELSE countColorGroups(lines[k]) + GroupsFrom(lines, k + 1)

calculateConnectedGroups(state) == GroupsFrom(BoardLines(state), 1)

\* The source computes centerControl * 2 + edgeControl * 1 +
\* connectedGroups * 1.5 in doubles.  Every value is a multiple of 0.5, exact
\* in a double; it is carried here as the integer number of halves.
calculateBoardControlHalves(state) ==
    calculateCenterControl(state) * 4 + calculateEdgeControl(state) * 2
        + calculateConnectedGroups(state) * 3

isDisruptable(sequence) ==
    CountOf(sequence, "") > 0 /\ Len(sequence) - CountOf(sequence, "") >= 2

\* emptyCount * 0.5 + disruptablePatterns * 2, as a number of halves
calculateChaosOpportunitiesHalves(state) ==
    Len(getEmptyPositions(state))
        + 4 * Cardinality({k \in 1..14 : isDisruptable(BoardLines(state)[k])})

\* currentScore * 100 + potential * 50 + boardControl * 20
\* + chaosOpportunities * -30; the halves times 20 and 30 are whole numbers
evaluatePosition(gameState) ==
    calculateFullBoardScore(gameState.state) * 100
        + calculatePatternPotential(gameState.state) * 50
        + calculateBoardControlHalves(gameState.state) * 10
        + calculateChaosOpportunitiesHalves(gameState.state) * (-15)

\* ------------------------------------------------------------ ordering
\* Array.prototype.sort with (a, b) => b.score - a.score: descending by score,
\* equal scores keeping their order (the sort is stable)
\* the item of the k-th place of scoredItems[1..n] goes to the place after
\* the items of a greater score and the earlier items of the same score
SortDescending(scoredItems, n) ==
    LET items == SubSeq(scoredItems, 1, n)
        places ==
            SubSeq([k \in 1..n |->
                       1 + Cardinality({j \in 1..n :
                              \/ items[j].score > items[k].score
                              \/ /\ items[j].score = items[k].score
                                 /\ j < k})], 1, n)
    IN  [place \in 1..n |-> items[CHOOSE k \in 1..n : places[k] = place]]

orderMovesByHeuristic(state, moves) ==
    LET scoredMoves ==
            [k \in 1..Len(moves) |->
                [move |-> moves[k],
                 score |-> calculateScoreDelta(state,
                               applyMove(state, moves[k]), moves[k])]]
        sorted == SortDescending(scoredMoves, Len(scoredMoves))
    IN  [k \in 1..Len(sorted) |-> sorted[k].move]

evaluatePatternDisruption(state, position, color) ==
    LET row == indexToCoords(position).row
        col == indexToCoords(position).col
        potentialBefore ==
            analyzeSequencePotential(getRow(state, row)).almostComplete
            + analyzeSequencePotential(getColumn(state, col)).almostComplete
        newState == applyPlacement(state, position, color)
        potentialAfter ==
            analyzeSequencePotential(getRow(newState, row)).almostComplete
            + analyzeSequencePotential(getColumn(newState, col)).almostComplete
    IN  potentialBefore - potentialAfter

orderChaosPlacementsByHeuristic(state, positions, color) ==
    LET scoredPositions ==
            [k \in 1..Len(positions) |->
                [pos |-> positions[k],
                 score |-> evaluatePatternDisruption(state, positions[k], color)]]
        sorted == SortDescending(scoredPositions, Len(scoredPositions))
    IN  [k \in 1..Len(sorted) |-> sorted[k].pos]

\* ------------------------------------------------------------ formatting
ROW_LETTERS == <<"a", "b", "c", "d", "e", "f", "g">>
DIGITS == <<"1", "2", "3", "4", "5", "6", "7">>

\* 'a'.charCodeAt(0) is 97; the letters a..g are the codes 97..103
charCodeAt(c) == 96 + (CHOOSE k \in 1..7 : ROW_LETTERS[k] = c)
fromCharCode(code) == ROW_LETTERS[code - 96]

\* parseInt of one decimal digit 1..7
parseInt(c) == CHOOSE k \in 1..7 : DIGITS[k] = c

\* pos[k] of a two-character address
charAt(pos, k) ==
    LET chars == {ROW_LETTERS[i] : i \in 1..7} \cup {DIGITS[i] : i \in 1..7}
    IN  IF k = 0 THEN CHOOSE c \in chars : \E d \in chars : pos = c \o d
        ELSE CHOOSE d \in chars : \E c \in chars : pos = c \o d

positionToIndex(pos) ==
    LET row == charCodeAt(charAt(pos, 0)) - charCodeAt("a")
        col == parseInt(charAt(pos, 1)) - 1
    IN  row * 7 + col

indexToPositionColumnLetter(idx) ==
    fromCharCode(charCodeAt("a") + (idx % 7)) \o DIGITS[(idx \div 7) + 1]

\* String.fromCharCode('a'.charCodeAt(0) + row) + (col + 1)
indexToPosition(idx) == ROW_LETTERS[(idx \div 7) + 1] \o DIGITS[(idx % 7) + 1]

\* Move | null: null is the record no slide has
null == [from |-> -1, to |-> -1]

formatOrderMoveDestinationFirst(move) ==
    IF move = null THEN "pass"
    ELSE indexToPosition(move.to) \o "-" \o indexToPosition(move.from)

formatOrderMove(move) ==
    IF move = null THEN "pass"
    ELSE indexToPosition(move.from) \o "-" \o indexToPosition(move.to)

\* ------------------------------------------------------------ LRUCache
\* The Map, as the list of its entries in insertion order (oldest first).
cacheHas(cache, key) == \E k \in 1..Len(cache) : cache[k].key = key

cacheDelete(cache, key) == SelectSeq(cache, LAMBDA entry : entry.key # key)

cacheValue(cache, key) ==
    cache[CHOOSE k \in 1..Len(cache) : cache[k].key = key].value

cacheAfterGetInPlace(cache, key) == cache

\* LRUCache.get: a hit moves the entry to the end; returns the Map after it
cacheAfterGet(cache, key) ==
    IF ~cacheHas(cache, key) THEN cache
    ELSE Append(cacheDelete(cache, key),
                [key |-> key, value |-> cacheValue(cache, key)])

\* LRUCache.set: delete, add at the end, drop the oldest when over maxSize
cacheAfterSet(cache, maxSize, key, value) ==
    LET added == Append(cacheDelete(cache, key), [key |-> key, value |-> value])
    IN  IF Len(added) > maxSize THEN Tail(added) ELSE added

\* state.join(''): the colors of the filled cells in row-major order; an
\* empty cell is the empty string and adds nothing
RECURSIVE JoinFrom(_, _)
JoinFrom(state, i) ==
    IF i >= 49 THEN "" ELSE state[i] \o JoinFrom(state, i + 1)

getBoardStateKey(state) == JoinFrom(state, 0)

\* ------------------------------------------------------------ state
VARIABLES
    sequence,   \* scoring: the line (or sub-run) handed to the scorer
    scored,     \* scoring: what the scorer returned for it, or NotScored
    board,      \* GameState.state
    nextToken,  \* GameState.nextToken
    turn,       \* GameState.turn
    plies,      \* game: the actions played so far
    last,       \* game: the last action, with the board it was applied to
    pc,         \* search: where orderNextTurn is ("none": not called)
    clock,      \* search: TimeManager, how far Date.now() is from the limit
    maxSize,    \* search: LRUCache.maxSize of the transposition table
    cache,      \* search: LRUCache.cache of the transposition table
    bestMove,   \* search: orderNextTurn's bestMove
    depth,      \* search: orderNextTurn's depth
    stack,      \* search: the frames of the calls orderNextTurn has open
    call,       \* search: the minimax call being entered, if any
    ret,        \* search: the value a minimax call just returned, if any
    iters,      \* search: what each iterativeDeepening call returned
    result,     \* search: what orderNextTurn returned
    args,       \* call: the function called and its arguments
    returned,   \* call: what it returned, or NotReturned
    uses,       \* cache: the get and set calls made on the LRUCache so far
    todos,      \* todo client: useState todos
    stats,      \* todo client: useState stats, NoStats for null
    isLoading,  \* todo client: useState isLoading
    isSubmitting, \* todo client: useState isSubmitting
    table,      \* todo server: the rows of the todos table, newest first
    serial,     \* todo server: the next value of the SERIAL id
    calls,      \* todo client: the handler calls that have not ended
    failed,     \* todo client: some fetch was answered with an error
    clicks      \* todo client: the clicks made so far

scoreVars == <<sequence, scored>>
gameVars == <<board, nextToken, turn, plies, last>>
searchVars == <<pc, clock, maxSize, cache, bestMove, depth, stack, call, ret,
                iters, result>>
vars == <<sequence, scored, board, nextToken, turn, plies, last,
          pc, clock, maxSize, cache, bestMove, depth, stack, call, ret,
          iters, result, args, returned, uses,
          todos, stats, isLoading, isSubmitting, table, serial, calls,
          failed, clicks>>
callVars == <<args, returned, uses>>
todoVars == <<todos, stats, isLoading, isSubmitting, table, serial, calls,
              failed, clicks>>

NotScored == [op |-> "none"]
NoAction == [op |-> "none"]
NotReturned == [fn |-> "none"]

\* no function is called on its own, and no LRUCache is exercised
NoCall == args = [fn |-> "none"] /\ returned = NotReturned /\ uses = <<>>

\* stats is null, and no todo
NoStats == [total |-> 0 - 1, completed |-> 0 - 1, pending |-> 0 - 1]
NoTodo == [id |-> 0, completed |-> FALSE, isExiting |-> FALSE]

\* the todo application is not running
NoTodoApp ==
    /\ todos = <<>> /\ stats = NoStats /\ isLoading = FALSE
    /\ isSubmitting = FALSE /\ table = <<>> /\ serial = 1 /\ calls = {}
    /\ failed = FALSE /\ clicks = 0

\* orderNextTurn has not been called
NoSearch ==
    /\ pc = "none" /\ clock = "early" /\ maxSize = 0 /\ cache = <<>>
    /\ bestMove = null /\ depth = 1 /\ stack = <<>>
    /\ call = <<>> /\ ret = <<>> /\ iters = <<>> /\ result = ""

\* ------------------------------------------------------------ boards
EmptyBoard == [i \in Cells |-> ""]

Abs(x) == IF x < 0 THEN 0 - x ELSE x

\* a full board, 7 tokens of each color, every row reading ABCDCBA
RowPalBoard ==
    [i \in Cells |-> COLORS[(((i \div 7) + Abs((i % 7) - 3)) % 7) + 1]]

\* the tokens on the cells of `holes` taken back off the board
Without(state, holes) == [i \in Cells |-> IF i \in holes THEN "" ELSE state[i]]

\* a board holding exactly the given tokens, a function cell -> color
Holding(tokens) ==
    [i \in Cells |-> IF i \in DOMAIN tokens THEN tokens[i] ELSE ""]

\* cells a dense board's holes are cut from
HoleCandidates == {0, 10, 24, 25, 31}

\* at most MaxHoles holes in a dense board
MaxHoles == 2

DenseBoards ==
    {Without(RowPalBoard, h) :
        h \in {x \in SUBSET HoleCandidates :
                  Cardinality(x) >= 1 /\ Cardinality(x) <= MaxHoles}}

\* the positions of the source's unit tests, and two more with three tokens
SparseBoards ==
    { EmptyBoard,
      Holding(24 :> "R"),
      Holding(24 :> "G"),
      Holding(6 :> "G"),
      Holding(24 :> "R" @@ 25 :> "G"),
      Holding(0 :> "R" @@ 1 :> "R"),
      Holding(0 :> "R" @@ 2 :> "R"),
      Holding(0 :> "R" @@ 1 :> "R" @@ 9 :> "R"),
      Holding(1 :> "G" @@ 8 :> "G" @@ 16 :> "G" @@ 22 :> "R"),
      Holding(3 :> "R" @@ 17 :> "G" @@ 19 :> "R" @@ 45 :> "G") }

StartBoards == DenseBoards \cup SparseBoards

\* the colors the placer may be handed: still in the bag, and among the
\* first NumGameColors colors that are
NumGameColors == 2

RECURSIVE InBagFrom(_, _)
InBagFrom(state, i) ==
    IF i > Len(COLORS) THEN <<>>
    ELSE (IF inferRemainingColors(state)[COLORS[i]] > 0
          THEN <<COLORS[i]>> ELSE <<>>) \o InBagFrom(state, i + 1)

Drawable(state) ==
    LET inBag == InBagFrom(state, 1)
    IN  {inBag[i] : i \in 1..(IF Len(inBag) < NumGameColors
                              THEN Len(inBag) ELSE NumGameColors)}

Range(s) == {s[i] : i \in 1..Len(s)}

\* ------------------------------------------------------------ SpecScore
LineColors == {COLORS[i] : i \in 1..NumLineColors}

Lines == [1..7 -> LineColors \cup {""}]

\* the palindromes of length 2..7 over all seven colors, built from a half
Mirror(h, odd) ==
    [i \in 1..(2 * Len(h) - (IF odd THEN 1 ELSE 0)) |->
        IF i <= Len(h) THEN h[i]
        ELSE h[2 * Len(h) - (IF odd THEN 1 ELSE 0) + 1 - i]]

Halves == UNION {[1..n -> Color \ {""}] : n \in 1..4}

Palindromes ==
    {Mirror(h, FALSE) : h \in {x \in Halves : Len(x) <= 3}}
        \cup {Mirror(h, TRUE) : h \in {x \in Halves : Len(x) >= 2}}

InitScore ==
    /\ \/ sequence \in Lines \cup Palindromes /\ board = EmptyBoard
       \/ sequence = <<>> /\ board \in StartBoards
    /\ scored = NotScored
    /\ nextToken = "" /\ turn = "none" /\ plies = 0 /\ last = NoAction
    /\ NoSearch /\ NoCall
    /\ NoTodoApp

\* scoreSequence(sequence)
ScoreSequence ==
    /\ scored = NotScored
    /\ sequence # <<>>
    /\ scored' = [op |-> "scoreSequence", score |-> scoreSequence(sequence)]
    /\ UNCHANGED <<todoVars, sequence, gameVars, searchVars, callVars>>

\* the body of scoreSequence's inner loop on a palindromic sub-run
ScorePalindrome ==
    /\ scored = NotScored
    /\ Len(sequence) >= 2
    /\ \A i \in 1..Len(sequence) : sequence[i] # ""
    /\ isPalindrome(sequence)
    /\ scored' = [op |-> "scorePalindrome",
                  signature |-> getPalindromeSignature(sequence),
                  score |-> scorePalindrome(sequence)]
    /\ UNCHANGED <<todoVars, sequence, gameVars, searchVars, callVars>>

\* calculateFullBoardScore(board)
ScoreBoard ==
    /\ scored = NotScored
    /\ sequence = <<>>
    /\ scored' = [op |-> "calculateFullBoardScore",
                  score |-> calculateFullBoardScore(board)]
    /\ UNCHANGED <<todoVars, sequence, gameVars, searchVars, callVars>>

NextScore == ScoreSequence \/ ScorePalindrome \/ ScoreBoard

SpecScore == InitScore /\ [][NextScore]_vars

\* ------------------------------------------------------------ SpecGame
\* the game around the engine: the placer puts the announced token on an
\* empty cell, the mover slides a token or passes, for MaxPlies actions
MaxPlies == 1

InitGame ==
    /\ board \in StartBoards
    /\ nextToken \in Drawable(board)
    /\ turn \in {"chaos", "order"}
    /\ plies = 0
    /\ last = NoAction
    /\ sequence = <<>> /\ scored = NotScored
    /\ NoSearch /\ NoCall
    /\ NoTodoApp

ChaosPlace ==
    /\ turn = "chaos" /\ plies < MaxPlies
    /\ \E position \in Range(getEmptyPositions(board)) :
         /\ board' = applyPlacement(board, position, nextToken)
         /\ last' = [op |-> "applyPlacement", state |-> board,
                     position |-> position, color |-> nextToken]
    /\ nextToken' \in Drawable(board') \cup
                        (IF Drawable(board') = {} THEN {""} ELSE {})
    /\ turn' = "order"
    /\ plies' = plies + 1
    /\ UNCHANGED <<todoVars, scoreVars, callVars, searchVars>>

OrderSlide ==
    /\ turn = "order" /\ plies < MaxPlies
    /\ \E move \in Range(getAllLegalMoves(board)) :
         /\ board' = applyMove(board, move)
         /\ last' = [op |-> "applyMove", state |-> board,
                     moves |-> getAllLegalMoves(board), move |-> move]
    /\ turn' = "chaos"
    /\ plies' = plies + 1
    /\ UNCHANGED <<todoVars, nextToken, scoreVars, callVars, searchVars>>

OrderPass ==
    /\ turn = "order" /\ plies < MaxPlies
    /\ last' = [op |-> "pass", state |-> board,
                 moves |-> getAllLegalMoves(board)]
    /\ turn' = "chaos"
    /\ plies' = plies + 1
    /\ UNCHANGED <<todoVars, board, nextToken, scoreVars, callVars, searchVars>>

NextGame == ChaosPlace \/ OrderSlide \/ OrderPass

SpecGame == InitGame /\ [][NextGame]_vars

\* ------------------------------------------------------------ SpecSearch
\* orderNextTurn, run step by step: one action per loop head and per call
\* entry or return, which are the points where the clock is read.
Infinity == 1000000000

Max(a, b) == IF a >= b THEN a ELSE b
Min(a, b) == IF a <= b THEN a ELSE b

\* beta <= alpha + 1000
cutoffWithinMargin(alpha, beta) == beta <= alpha + 1000

\* beta <= alpha: the rest of the node's children cannot change the result
cutoff(alpha, beta) == beta <= alpha

\* the capacities the transposition table is run with: none (the search
\* without its cache), 1..SmallCache (eviction on every insert), and the
\* 5000 of orderNextTurn
SmallCache == 1
Capacities == (0..SmallCache) \cup {5000}

\* boards the search is started on with every capacity
SearchHoles == 2

\* cells the holes of those boards are cut from: the corner, and two
\* neighbours in the center
SearchHoleCandidates == {0, 24, 25}

SearchBoards ==
    {Without(RowPalBoard, h) :
        h \in {x \in SUBSET SearchHoleCandidates :
                  Cardinality(x) >= 1 /\ Cardinality(x) <= SearchHoles}}

\* the board with the tokens of cells a and b exchanged
Exchanged(state, a, b) ==
    [i \in Cells |-> IF i = a THEN state[b] ELSE IF i = b THEN state[a]
                     ELSE state[i]]

\* the full board rearranged so that row 0 reads R R G G G Y B and an R
\* stands below its third cell
ThreeRedBoard ==
    Exchanged(Exchanged(Exchanged(Exchanged(RowPalBoard, 0, 28), 1, 34),
                        9, 36), 3, 35)

\* boards on which one slide brings a third R next to two R's of a line:
\* with few tokens, and nearly full
SparseRedBoards ==
    { Holding(0 :> "R" @@ 1 :> "R" @@ 16 :> "R"),
      Holding(0 :> "R" @@ 1 :> "R" @@ 9 :> "R" @@ 24 :> "G" @@ 38 :> "G"),
      Holding(14 :> "R" @@ 28 :> "R" @@ 22 :> "R" @@ 3 :> "G" @@ 5 :> "Y") }

\* a board given by its 49 cells, row after row
BoardOf(cells) == [i \in Cells |-> cells[i + 1]]

\* a nearly full board whose column 2 holds R R above the one empty cell,
\* with an R to the right of that cell
RedColumnBoard ==
    BoardOf(<<
       "G", "R", "K", "B", "P", "B", "G",
       "P", "G", "R", "B", "W", "P", "Y",
       "Y", "P", "R", "R", "K", "B", "Y",
       "B", "W", "", "R", "P", "B", "W",
       "B", "Y", "W", "P", "W", "Y", "W",
       "G", "G", "G", "K", "G", "K", "W",
       "Y", "K", "K", "K", "R", "R", "Y" >>)

DenseRedBoards ==
    { Without(ThreeRedBoard, {2}), Without(ThreeRedBoard, {2, 25}),
      RedColumnBoard }

gameStateOf(state) == [state |-> state, nextToken |-> nextToken, turn |-> turn]

Top == stack[Len(stack)]
Popped == SubSeq(stack, 1, Len(stack) - 1)
Running(fn) ==
    /\ pc = "orderNextTurn" /\ stack # <<>> /\ Top.fn = fn
    /\ call = <<>> /\ ret = <<>>
Returning(fn) ==
    /\ pc = "orderNextTurn" /\ stack # <<>> /\ Top.fn = fn
    /\ call = <<>> /\ ret # <<>>

\* remaining() > 0
remainingOverZero == clock # "expired"

\* TimeManager.remaining() > 500
remainingOver500 == clock = "early"
\* TimeManager.shouldStop()
shouldStop == clock = "expired"

InitSearch ==
    /\ \/ board \in SearchBoards \cup DenseRedBoards /\ maxSize \in Capacities
       \/ /\ board \in SparseBoards \cup SparseRedBoards \cup {RowPalBoard}
          /\ maxSize = 5000
    /\ nextToken \in Drawable(board) \cup
                       (IF Drawable(board) = {} THEN {""} ELSE {})
    /\ turn = "order" /\ plies = 0 /\ last = NoAction
    /\ sequence = <<>> /\ scored = NotScored
    /\ pc = "orderNextTurn" /\ clock = "early" /\ cache = <<>>
    /\ bestMove = null /\ depth = 1 /\ stack = <<>>
    /\ call = <<>> /\ ret = <<>> /\ iters = <<>> /\ result = ""
    /\ NoCall
    /\ NoTodoApp

\* Date.now() moves on, between any two steps of the search
Tick ==
    /\ pc = "orderNextTurn"
    /\ clock # "expired"
    /\ clock' = IF clock = "early" THEN "late" ELSE "expired"
    /\ UNCHANGED <<todoVars, scoreVars, callVars, gameVars, pc, maxSize, cache, bestMove, depth,
                   stack, call, ret, iters, result>>

\* orderNextTurn: the while test, then either the call of iterativeDeepening
\* up to its for loop, or the return
OrderNextTurnLoop ==
    /\ pc = "orderNextTurn" /\ stack = <<>>
    /\ IF remainingOver500 /\ depth <= 4
       THEN /\ stack' = <<[fn |-> "iterativeDeepening",
                           maxDepth |-> depth,
                           orderedMoves |->
                               orderMovesByHeuristic(board,
                                   getAllLegalMoves(board)),
                           at |-> 1,
                           bestMove |-> null,
                           bestScore |-> 0 - Infinity]>>
            /\ UNCHANGED <<pc, result>>
       ELSE /\ pc' = "returned"
            /\ result' = formatOrderMove(bestMove)
            /\ UNCHANGED stack
    /\ UNCHANGED <<todoVars, scoreVars, callVars, gameVars, clock, maxSize, cache, bestMove, depth,
                   call, ret, iters>>

\* iterativeDeepening: the head of the for loop.  Either the next root move
\* is handed to minimax, or the loop is over (all moves done, or the break on
\* shouldStop) and orderNextTurn takes the result and increments depth.
IterativeDeepeningLoop ==
    /\ Running("iterativeDeepening")
    /\ IF Top.at <= Len(Top.orderedMoves) /\ ~shouldStop
       THEN /\ call' = <<[state |-> applyMove(board, Top.orderedMoves[Top.at]),
                          depth |-> Top.maxDepth - 1,
                          alpha |-> 0 - Infinity,
                          beta |-> Infinity,
                          isMaximizing |-> FALSE]>>
            /\ UNCHANGED <<stack, bestMove, depth, iters>>
       ELSE /\ stack' = <<>>
            /\ bestMove' = IF Top.bestMove # null THEN Top.bestMove
                           ELSE bestMove
            /\ depth' = depth + 1
            /\ iters' = Append(iters,
                           [depth |-> Top.maxDepth,
                            score |-> Top.bestScore,
                            move |-> Top.bestMove,
                            interrupted |-> Top.at <= Len(Top.orderedMoves),
                            expired |-> shouldStop])
            /\ UNCHANGED call
    /\ UNCHANGED <<todoVars, scoreVars, callVars, gameVars, pc, clock, maxSize, cache, ret, result>>

\* iterativeDeepening: minimax returned the score of the current root move
IterativeDeepeningScore ==
    /\ Returning("iterativeDeepening")
    /\ LET score == ret[1]
           better == score > Top.bestScore
       IN  stack' = Append(Popped,
               [Top EXCEPT !.bestScore = IF better THEN score ELSE @,
                           !.bestMove = IF better
                                        THEN Top.orderedMoves[Top.at] ELSE @,
                           !.at = @ + 1])
    /\ ret' = <<>>
    /\ UNCHANGED <<todoVars, scoreVars, callVars, gameVars, pc, clock, maxSize, cache, bestMove,
                   depth, call, iters, result>>

\* minimax, from its entry to its return or to the first call it makes
Minimax ==
    /\ pc = "orderNextTurn" /\ call # <<>>
    /\ LET gameState == gameStateOf(call[1].state)
           stateKey == getBoardStateKey(call[1].state)
       IN  IF shouldStop
           THEN /\ ret' = <<evaluatePosition(gameState)>>
                /\ call' = <<>>
                /\ UNCHANGED <<cache, stack>>
           ELSE IF cacheHas(cache, stateKey)
           THEN /\ ret' = <<cacheValue(cache, stateKey)>>
                /\ cache' = cacheAfterGet(cache, stateKey)
                /\ call' = <<>>
                /\ UNCHANGED stack
           ELSE IF call[1].depth = 0 \/ isGameOver(call[1].state)
           THEN /\ ret' = <<evaluatePosition(gameState)>>
                /\ cache' = cacheAfterSet(cache, maxSize, stateKey,
                                          evaluatePosition(gameState))
                /\ call' = <<>>
                /\ UNCHANGED stack
           ELSE IF call[1].isMaximizing
           THEN \* maximizingPlayer, up to the call that evaluates the pass
                /\ stack' = Append(stack,
                       [fn |-> "maximizingPlayer",
                        state |-> call[1].state,
                        depth |-> call[1].depth,
                        alpha |-> call[1].alpha,
                        beta |-> call[1].beta,
                        maxEval |-> 0 - Infinity,
                        orderedMoves |->
                            orderMovesByHeuristic(call[1].state,
                                getAllLegalMoves(call[1].state)),
                        at |-> 0])
                /\ call' = <<[state |-> call[1].state,
                              depth |-> call[1].depth - 1,
                              alpha |-> call[1].alpha,
                              beta |-> call[1].beta,
                              isMaximizing |-> FALSE]>>
                /\ UNCHANGED <<cache, ret>>
           ELSE \* minimizingPlayer, up to its for loop
                /\ stack' = Append(stack,
                       [fn |-> "minimizingPlayer",
                        state |-> call[1].state,
                        depth |-> call[1].depth,
                        alpha |-> call[1].alpha,
                        beta |-> call[1].beta,
                        minEval |-> Infinity,
                        orderedPositions |->
                            orderChaosPlacementsByHeuristic(call[1].state,
                                getEmptyPositions(call[1].state), nextToken),
                        at |-> 1])
                /\ call' = <<>>
                /\ UNCHANGED <<cache, ret>>
    /\ UNCHANGED <<todoVars, scoreVars, callVars, gameVars, pc, clock, maxSize, bestMove, depth,
                   iters, result>>

\* maximizingPlayer: the head of the for loop
MaximizingPlayerLoop ==
    /\ Running("maximizingPlayer")
    /\ IF Top.at <= Len(Top.orderedMoves)
          /\ ~(shouldStop \/ cutoff(Top.alpha, Top.beta))
       THEN /\ call' = <<[state |-> applyMove(Top.state,
                                              Top.orderedMoves[Top.at]),
                          depth |-> Top.depth - 1,
                          alpha |-> Top.alpha,
                          beta |-> Top.beta,
                          isMaximizing |-> FALSE]>>
            /\ UNCHANGED <<stack, ret>>
       ELSE /\ ret' = <<Top.maxEval>>
            /\ stack' = Popped
            /\ UNCHANGED call
    /\ UNCHANGED <<todoVars, scoreVars, callVars, gameVars, pc, clock, maxSize, cache, bestMove,
                   depth, iters, result>>

\* maximizingPlayer: minimax returned, for the pass (at = 0) or for a slide
MaximizingPlayerEval ==
    /\ Returning("maximizingPlayer")
    /\ LET eval == ret[1]
           maxEval == Max(Top.maxEval, eval)
           alpha == IF Top.at = 0 THEN Max(Top.alpha, maxEval)
                    ELSE Max(Top.alpha, eval)
       IN  IF Top.at > 0 /\ cutoff(alpha, Top.beta)
           THEN \* beta cutoff
                /\ ret' = <<maxEval>>
                /\ stack' = Popped
           ELSE /\ ret' = <<>>
                /\ stack' = Append(Popped,
                       [Top EXCEPT !.maxEval = maxEval, !.alpha = alpha,
                                   !.at = @ + 1])
    /\ UNCHANGED <<todoVars, scoreVars, callVars, gameVars, pc, clock, maxSize, cache, bestMove,
                   depth, call, iters, result>>

\* minimizingPlayer: the head of the for loop
MinimizingPlayerLoop ==
    /\ Running("minimizingPlayer")
    /\ IF Top.at <= Len(Top.orderedPositions)
          /\ ~(shouldStop \/ cutoff(Top.alpha, Top.beta))
       THEN /\ call' = <<[state |-> applyPlacement(Top.state,
                                        Top.orderedPositions[Top.at],
                                        nextToken),
                          depth |-> Top.depth - 1,
                          alpha |-> Top.alpha,
                          beta |-> Top.beta,
                          isMaximizing |-> TRUE]>>
            /\ UNCHANGED <<stack, ret>>
       ELSE /\ ret' = <<Top.minEval>>
            /\ stack' = Popped
            /\ UNCHANGED call
    /\ UNCHANGED <<todoVars, scoreVars, callVars, gameVars, pc, clock, maxSize, cache, bestMove,
                   depth, iters, result>>

\* minimizingPlayer: minimax returned the value of the current placement
MinimizingPlayerEval ==
    /\ Returning("minimizingPlayer")
    /\ LET eval == ret[1]
           minEval == Min(Top.minEval, eval)
           beta == Min(Top.beta, eval)
       IN  IF cutoff(Top.alpha, beta)
           THEN \* alpha cutoff
                /\ ret' = <<minEval>>
                /\ stack' = Popped
           ELSE /\ ret' = <<>>
                /\ stack' = Append(Popped,
                       [Top EXCEPT !.minEval = minEval, !.beta = beta,
                                   !.at = @ + 1])
    /\ UNCHANGED <<todoVars, scoreVars, callVars, gameVars, pc, clock, maxSize, cache, bestMove,
                   depth, call, iters, result>>

SearchStep ==
    \/ OrderNextTurnLoop
    \/ IterativeDeepeningLoop
    \/ IterativeDeepeningScore
    \/ Minimax
    \/ MaximizingPlayerLoop
    \/ MaximizingPlayerEval
    \/ MinimizingPlayerLoop
    \/ MinimizingPlayerEval

NextSearch == SearchStep \/ Tick

SpecSearch == InitSearch /\ [][NextSearch]_vars

\* ------------------------------------------------------------ SpecCache
\* an LRUCache of capacity maxSize, under any get and set calls
MaxCapacity == 2
MaxUses == 4
CacheKeys == {"a", "b", "c"}
CacheValues == {1, 2}

InitCache ==
    /\ args = [fn |-> "LRUCache"] /\ returned = NotReturned /\ uses = <<>>
    /\ maxSize \in 0..MaxCapacity /\ cache = <<>>
    /\ pc = "none" /\ clock = "early" /\ bestMove = null /\ depth = 1
    /\ stack = <<>> /\ call = <<>> /\ ret = <<>> /\ iters = <<>> /\ result = ""
    /\ board = EmptyBoard /\ nextToken = "" /\ turn = "none" /\ plies = 0
    /\ last = NoAction /\ sequence = <<>> /\ scored = NotScored
    /\ NoTodoApp

\* LRUCache.get(key); a miss returns undefined (hit FALSE)
LRUCacheGet ==
    /\ args.fn = "LRUCache" /\ Len(uses) < MaxUses
    /\ \E key \in CacheKeys :
         /\ cache' = cacheAfterGet(cache, key)
         /\ uses' = Append(uses,
                [op |-> "get", key |-> key, hit |-> cacheHas(cache, key),
                 value |-> IF cacheHas(cache, key)
                           THEN cacheValue(cache, key) ELSE 0])
    /\ UNCHANGED <<todoVars, scoreVars, gameVars, args, returned, pc, clock, maxSize,
                   bestMove, depth, stack, call, ret, iters, result>>

\* LRUCache.set(key, value)
LRUCacheSet ==
    /\ args.fn = "LRUCache" /\ Len(uses) < MaxUses
    /\ \E key \in CacheKeys, value \in CacheValues :
         /\ cache' = cacheAfterSet(cache, maxSize, key, value)
         /\ uses' = Append(uses,
                [op |-> "set", key |-> key, hit |-> TRUE, value |-> value])
    /\ UNCHANGED <<todoVars, scoreVars, gameVars, args, returned, pc, clock, maxSize,
                   bestMove, depth, stack, call, ret, iters, result>>

NextCache == LRUCacheGet \/ LRUCacheSet

SpecCache == InitCache /\ [][NextCache]_vars

\* ------------------------------------------------------------ heuristic
\* The one-ply mover of ORDER_HEURISTIC.md and its own evaluator.  Its
\* components hold multiples of 0.5, exact in a double; "Twice" in a name
\* says the operator returns two times the source's value.

\* count - 1 for every color with 2+ tokens in the line
countColorGroupsByCount(line) ==
    LET colors == {c \in Color \ {""} : CountOf(line, c) >= 2}
        tokens == {i \in 1..Len(line) : line[i] \in colors}
    IN  Cardinality(tokens) - Cardinality(colors)

RECURSIVE GroupsByCountFrom(_, _)
GroupsByCountFrom(lines, k) ==
    IF k > Len(lines) THEN 0
    ELSE countColorGroupsByCount(lines[k]) + GroupsByCountFrom(lines, k + 1)

\* centerControl * 2 + edgeControl * 1 + connectedGroups * 1.5; the extended
\* center of calculateCenterControl is an empty list
heuristicBoardControlTwice(state) ==
    calculateCenterControl(state) * 4 + calculateEdgeControl(state) * 2
        + GroupsByCountFrom(BoardLines(state), 1) * 3

isVulnerableToDisruption(line) ==
    LET emptyCount == CountOf(line, "")
        filled == filledOf(line)
    IN  IF emptyCount = 0 \/ Len(filled) < 2 THEN FALSE
        ELSE IF Len(filled) >= 2 /\ filled[1] = filled[Len(filled)] THEN TRUE
        ELSE \E i \in 1..(Len(filled) - 1) : filled[i] = filled[i + 1]

countDisruptablePatterns(state) ==
    Cardinality({k \in 1..14 : isVulnerableToDisruption(BoardLines(state)[k])})

\* emptyCount * 0.5 + disruptablePatterns * 2
heuristicChaosOpportunitiesTwice(state) ==
    Len(getEmptyPositions(state)) + 4 * countDisruptablePatterns(state)

\* 2 for every empty cell whose row or column holds nextToken
evaluateNextTokenPositions(state, token) ==
    2 * Cardinality({pos \in Range(getEmptyPositions(state)) :
            \/ CountOf(getRow(state, indexToCoords(pos).row), token) > 0
            \/ CountOf(getColumn(state, indexToCoords(pos).col), token) > 0})

analyzeColorDistribution(state, token) ==
    LET nextTokenOnBoard ==
            IF token = "" THEN 0
            ELSE Cardinality({i \in Cells : state[i] = token})
        uniqueColors == Cardinality({state[i] : i \in Cells} \ {""})
    IN  (IF nextTokenOnBoard <= 1 THEN 10 ELSE 0)
            + (IF nextTokenOnBoard >= 4 THEN 0 - 5 ELSE 0)
            + uniqueColors * 2
            + evaluateNextTokenPositions(state, token)

\* 3, 2.5, 2, 1 for 1, 2, 3, more colors (and for none)
calculateColorDiversityTwice(line) ==
    LET uniqueColors == Cardinality(Range(filledOf(line)))
    IN  IF uniqueColors = 1 THEN 6
        ELSE IF uniqueColors = 2 THEN 5
        ELSE IF uniqueColors = 3 THEN 4
        ELSE 2

calculateSequenceFertilityTwice(line) ==
    LET emptyCount == CountOf(line, "")
        filledCount == 7 - emptyCount
    IN  IF filledCount = 0 \/ filledCount = 1 THEN 0
        ELSE IF filledCount >= 2 /\ filledCount <= 4
        THEN (5 - emptyCount) * calculateColorDiversityTwice(line) * 2
        ELSE IF filledCount >= 5 /\ filledCount <= 6 THEN filledCount * 3
        ELSE 20

RECURSIVE FertilityTwiceFrom(_, _)
FertilityTwiceFrom(lines, k) ==
    IF k > Len(lines) THEN 0
    ELSE calculateSequenceFertilityTwice(lines[k])
             + FertilityTwiceFrom(lines, k + 1)

calculateFertilityTwice(state) == FertilityTwiceFrom(BoardLines(state), 1)

\* immediate * 100 + potential * 50 + control * 30 + opportunities * -40
\* + distribution * 20 + fertility * 25, times two
heuristicEvaluatePositionTwice(gameState) ==
    calculateFullBoardScore(gameState.state) * 200
        + calculatePatternPotential(gameState.state) * 100
        + heuristicBoardControlTwice(gameState.state) * 30
        + heuristicChaosOpportunitiesTwice(gameState.state) * (0 - 40)
        + analyzeColorDistribution(gameState.state, gameState.nextToken) * 40
        + calculateFertilityTwice(gameState.state) * 25

\* bestMove after the for loop of the heuristic orderNextTurn has run from
\* the k-th generated move on; the loop ends early after a move whose
\* evaluation exceeds currentScore + 20
RECURSIVE HeuristicLoopFrom(_, _, _, _, _, _)
HeuristicLoopFrom(moves, evaluationsTwice, currentScore, k, best, bestEvaluationTwice) ==
    IF k > Len(moves) THEN best
    ELSE IF evaluationsTwice[k] > bestEvaluationTwice
    THEN IF evaluationsTwice[k] > 2 * (currentScore + 20) THEN moves[k]
         ELSE HeuristicLoopFrom(moves, evaluationsTwice, currentScore, k + 1,
                                moves[k], evaluationsTwice[k])
    ELSE IF evaluationsTwice[k] > 2 * (currentScore + 20) THEN best
         ELSE HeuristicLoopFrom(moves, evaluationsTwice, currentScore, k + 1,
                                best, bestEvaluationTwice)

\* orderNextTurn of the heuristic mover; evaluationsTwice[k] is the evaluation
\* of the board after moves[k]
heuristicOrderNextTurn(gameState) ==
    LET moves == generateLegalMoves(gameState.state)
        evaluationOf(move) ==
            heuristicEvaluatePositionTwice(
                [gameState EXCEPT !.state = applyMove(gameState.state, move)])
    IN  formatOrderMove(
            HeuristicLoopFrom(moves,
                SubSeq([k \in 1..Len(moves) |-> evaluationOf(moves[k])],
                       1, Len(moves)),
                calculateFullBoardScore(gameState.state), 1, null,
                heuristicEvaluatePositionTwice(gameState)))

\* ------------------------------------------------------------ spoiler
\* the reduction in potential of the position's row and column when the
\* token is put on `state`
evaluatePatternBreaking(state, position, color) ==
    LET row == indexToCoords(position).row
        col == indexToCoords(position).col
        rowPotentialBefore == analyzeSequencePotential(getRow(state, row))
        tempState == [state EXCEPT ![position] = color]
        rowPotentialAfter == analyzeSequencePotential(getRow(tempState, row))
        colPotentialBefore == analyzeSequencePotential(getColumn(state, col))
        colPotentialAfter ==
            analyzeSequencePotential(getColumn(tempState, col))
        rowDisruption ==
            (rowPotentialBefore.almostComplete
                 - rowPotentialAfter.almostComplete) * 10
            + (rowPotentialBefore.twoMove - rowPotentialAfter.twoMove) * 5
        colDisruption ==
            (colPotentialBefore.almostComplete
                 - colPotentialAfter.almostComplete) * 10
            + (colPotentialBefore.twoMove - colPotentialAfter.twoMove) * 5
    IN  rowDisruption + colDisruption

\* the window of `length` cells from (startRow, startCol) holds the position,
\* at least two tokens, and a pair of equal tokens on mirrored cells
couldFormPalindrome(state, startRow, startCol, length, direction, position) ==
    LET window ==
            [i \in 1..length |->
                state[IF direction = "horizontal"
                      THEN coordsToIndex(startRow, startCol + (i - 1))
                      ELSE coordsToIndex(startRow + (i - 1), startCol)]]
        posInSequence ==
            IF direction = "horizontal"
            THEN indexToCoords(position).col - startCol
            ELSE indexToCoords(position).row - startRow
        emptyCount == CountOf(window, "")
        filledCount == length - emptyCount
        matches ==
            Cardinality({i \in 0..((length \div 2) - 1) :
                /\ window[i + 1] # "" /\ window[length - i] # ""
                /\ window[i + 1] = window[length - i]})
    IN  IF posInSequence < 0 \/ posInSequence >= length THEN FALSE
        ELSE IF filledCount < 2 THEN FALSE
        ELSE matches >= 1

\* denialScore after the passes of the loop for len, len + 1, .. 7
RECURSIVE DenialFrom(_, _, _)
DenialFrom(state, position, len) ==
    IF len > 7 THEN 0
    ELSE LET row == indexToCoords(position).row
             col == indexToCoords(position).col
             horizontal ==
                 {start \in Max(0, col - len + 1)..Min(6, col) :
                     /\ ~(start + len > 7)
                     /\ couldFormPalindrome(state, row, start, len,
                                            "horizontal", position)}
             vertical ==
                 {start \in Max(0, row - len + 1)..Min(6, row) :
                     /\ ~(start + len > 7)
                     /\ couldFormPalindrome(state, start, col, len,
                                            "vertical", position)}
         IN  len * (Cardinality(horizontal) + Cardinality(vertical))
                 + DenialFrom(state, position, len + 1)

evaluateOpportunityDenial(state, position) == DenialFrom(state, position, 2)

calculateIsolationScore(state, position, color) ==
    LET sameColorInRow ==
            CountOf(getRow(state, indexToCoords(position).row), color)
        sameColorInCol ==
            CountOf(getColumn(state, indexToCoords(position).col), color)
    IN  (7 - sameColorInRow) + (7 - sameColorInCol)

calculateBlockingScore(state, position, color) ==
    LET rowPotential ==
            analyzeSequencePotential(getRow(state, indexToCoords(position).row))
        colPotential ==
            analyzeSequencePotential(
                getColumn(state, indexToCoords(position).col))
    IN  rowPotential.almostComplete * 10 + rowPotential.twoMove * 5
            + colPotential.almostComplete * 10 + colPotential.twoMove * 5

evaluateBagAwareness(state, position, color) ==
    LET remaining == inferRemainingColors(state)
        colorCount == IF color \in DOMAIN remaining THEN remaining[color] ELSE 0
    IN  IF colorCount <= 2 THEN calculateIsolationScore(state, position, color)
        ELSE calculateBlockingScore(state, position, color)

\* the first `count` moves as generated
selectFirstMoves(state, moves, count) ==
    IF Len(moves) <= count THEN moves ELSE SubSeq(moves, 1, count)

\* all the moves when there are at most `count`, else the `count` moves of
\* the greatest score delta
selectTopMovesByQuickHeuristic(state, moves, count) ==
    IF Len(moves) <= count THEN moves
    ELSE LET scoredMoves ==
                 [k \in 1..Len(moves) |->
                     [move |-> moves[k],
                      score |-> calculateScoreDelta(state,
                                    applyMove(state, moves[k]), moves[k])]]
             sorted == SortDescending(scoredMoves, Len(scoredMoves))
         IN  [k \in 1..count |-> sorted[k].move]

\* bestScore after the moves k, k + 1, .. of topMoves have been tried,
\* scores[k] being the board score after topMoves[k]
RECURSIVE BestScoreFrom(_, _, _)
BestScoreFrom(scores, k, bestScore) ==
    IF k > Len(scores) THEN bestScore
    ELSE IF scores[k] > bestScore
         THEN BestScoreFrom(scores, k + 1, scores[k])
         ELSE BestScoreFrom(scores, k + 1, bestScore)

estimateOrderBestMove(state) ==
    LET currentScore == calculateFullBoardScore(state)
        bestOver(topMoves) ==
            BestScoreFrom(SubSeq([k \in 1..Len(topMoves) |->
                                     calculateFullBoardScore(
                                         applyMove(state, topMoves[k]))],
                                 1, Len(topMoves)),
                          1, currentScore)
    IN  bestOver(selectTopMovesByQuickHeuristic(state,
                                                getAllLegalMoves(state), 50))

\* lower is better for Chaos
evaluateSpoilerPlacement(gameState, position, color) ==
    LET score(newState) ==
            (0 - evaluatePatternBreaking(newState, position, color)) * 50
                + (0 - evaluateOpportunityDenial(newState, position)) * 30
                + (0 - evaluateBagAwareness(newState, position, color)) * 20
                + estimateOrderBestMove(newState) * 100
    IN  score(applyPlacement(gameState.state, position, color))

\* ------------------------------------------------------------ zones
\* Math.floor(x / 2.33) for x in 0..6: the quotients are 0, 0.43, 0.86,
\* 1.29, 1.72, 2.15, 2.58, none near a whole number, so the floor of the
\* double is the integer quotient of 100 x by 233
floorBy233(x) == (x * 100) \div 233

getZone(position) ==
    LET zoneRow == floorBy233(indexToCoords(position).row)
        zoneCol == floorBy233(indexToCoords(position).col)
    IN  Min(zoneRow, 2) * 3 + Min(zoneCol, 2)

\* the cells the two for loops of getColorsInZone read
zoneCells(zone) ==
    LET zoneRow == zone \div 3
        zoneCol == zone % 3
        rowStart == zoneRow * 2
        rowEnd == Min(rowStart + 3, 7)
        colStart == zoneCol * 2
        colEnd == Min(colStart + 3, 7)
    IN  {r * 7 + c : r \in rowStart..(rowEnd - 1), c \in colStart..(colEnd - 1)}

getColorsInZone(state, zone) == {state[i] : i \in zoneCells(zone)} \ {""}

\* ------------------------------------------------------------ placers
\* the three strategies of the placer (Chaos): spoiler, gap creation, hybrid
getPositionalValue(position, phase) ==
    LET row == indexToCoords(position).row
        col == indexToCoords(position).col
        centerDist == Abs(row - 3) + Abs(col - 3)
    IN  IF phase = "early" THEN (6 - centerDist) * 2
        ELSE IF phase = "mid" THEN 5
        ELSE 3

\* lower is better for Chaos
evaluateCompleteSpoilerPlacement(gameState, position) ==
    LET color == gameState.nextToken
        state == gameState.state
        score(newState) ==
            (0 - evaluatePatternBreaking(state, position, color)) * 50
                + (0 - evaluateOpportunityDenial(newState, position)) * 30
                + (0 - evaluateBagAwareness(state, position, color)) * 20
                + estimateOrderBestMove(newState) * 100
                + (0 - getPositionalValue(position,
                                          determineGamePhase(state))) * 10
    IN  score(applyPlacement(state, position, color))

\* the number of runs of one color among the tokens of the line, the empty
\* cells skipped
countColorRuns(line) ==
    LET filled == filledOf(line)
    IN  Cardinality({i \in 1..Len(filled) :
                        i = 1 \/ filled[i] # filled[i - 1]})

evaluateColorFragmentation(state, position, color) ==
    LET row == indexToCoords(position).row
        col == indexToCoords(position).col
        rowColors == getRow(state, row)
        rowRunsBefore == countColorRuns(rowColors)
        rowRunsAfter == countColorRuns([rowColors EXCEPT ![col + 1] = color])
        colColors == getColumn(state, col)
        colRunsBefore == countColorRuns(colColors)
        colRunsAfter == countColorRuns([colColors EXCEPT ![row + 1] = color])
    IN  (rowRunsAfter - rowRunsBefore) * 5 + (colRunsAfter - colRunsBefore) * 5

\* segment is line.slice(start, start + len), position an index into it
wouldBreakPalindrome(segment, position, color) ==
    LET mirror == Len(segment) - 1 - position
    IN  IF segment[position + 1] = "" /\ segment[mirror + 1] # ""
        THEN color # segment[mirror + 1]
        ELSE FALSE

\* the two nested loops over len = 2..7 and start = 0..7 - len, on one line:
\* at is the index of the placement in the line
RECURSIVE BreakingFrom(_, _, _, _)
BreakingFrom(line, at, color, len) ==
    IF len > 7 THEN 0
    ELSE len * Cardinality({start \in 0..(7 - len) :
                /\ ~(at < start \/ at >= start + len)
                /\ wouldBreakPalindrome(SubSeq(line, start + 1, start + len),
                                        at - start, color)})
           + BreakingFrom(line, at, color, len + 1)

checkPalindromeBreaking(state, position, color) ==
    LET row == indexToCoords(position).row
        col == indexToCoords(position).col
    IN  BreakingFrom(getRow(state, row), col, color, 2)
            + BreakingFrom(getColumn(state, col), row, color, 2)

evaluateSymmetryBreaking(state, position, color) ==
    LET row == indexToCoords(position).row
        col == indexToCoords(position).col
        mirrorColor == state[row * 7 + (6 - col)]
        mirrorColorV == state[(6 - row) * 7 + col]
        horizontal == IF mirrorColor # "" /\ mirrorColor # color THEN 10
                      ELSE IF mirrorColor = color THEN 0 - 5
                      ELSE 0
        vertical == IF mirrorColorV # "" /\ mirrorColorV # color THEN 10
                    ELSE IF mirrorColorV = color THEN 0 - 5
                    ELSE 0
    IN  horizontal + vertical + checkPalindromeBreaking(state, position, color)

RECURSIVE countEmptyToLeft(_, _, _)
countEmptyToLeft(state, row, col) ==
    IF col - 1 < 0 \/ state[row * 7 + (col - 1)] # "" THEN 0
    ELSE 1 + countEmptyToLeft(state, row, col - 1)

RECURSIVE countEmptyToRight(_, _, _)
countEmptyToRight(state, row, col) ==
    IF col + 1 >= 7 \/ state[row * 7 + (col + 1)] # "" THEN 0
    ELSE 1 + countEmptyToRight(state, row, col + 1)

RECURSIVE countEmptyUp(_, _, _)
countEmptyUp(state, row, col) ==
    IF row - 1 < 0 \/ state[(row - 1) * 7 + col] # "" THEN 0
    ELSE 1 + countEmptyUp(state, row - 1, col)

RECURSIVE countEmptyDown(_, _, _)
countEmptyDown(state, row, col) ==
    IF row + 1 >= 7 \/ state[(row + 1) * 7 + col] # "" THEN 0
    ELSE 1 + countEmptyDown(state, row + 1, col)

evaluateGapSpacing(state, position) ==
    LET row == indexToCoords(position).row
        col == indexToCoords(position).col
    IN  (IF countEmptyToLeft(state, row, col) % 2 = 1 THEN 5 ELSE 0)
          + (IF countEmptyToRight(state, row, col) % 2 = 1 THEN 5 ELSE 0)
          + (IF countEmptyUp(state, row, col) % 2 = 1 THEN 5 ELSE 0)
          + (IF countEmptyDown(state, row, col) % 2 = 1 THEN 5 ELSE 0)

\* zoneColors is a Set: a color it has is in it once, so colorCount is 1
evaluateZoneControl(state, position, color) ==
    LET zoneColors == getColorsInZone(state, getZone(position))
    IN  IF color \notin zoneColors THEN 8
        ELSE Max(0, 5 - Cardinality({c \in zoneColors : c = color}))

evaluateEdgeStrategy(state, position, phase) ==
    LET row == indexToCoords(position).row
        col == indexToCoords(position).col
        isEdge == row = 0 \/ row = 6 \/ col = 0 \/ col = 6
        isCorner == (row = 0 \/ row = 6) /\ (col = 0 \/ col = 6)
        isCenter == row >= 2 /\ row <= 4 /\ col >= 2 /\ col <= 4
    IN  IF phase = "early"
        THEN (IF isCenter THEN 10 ELSE IF isEdge THEN 5
              ELSE IF isCorner THEN 3 ELSE 7)
        ELSE IF phase = "mid"
        THEN (IF isCenter THEN 8 ELSE IF isEdge THEN 6
              ELSE IF isCorner THEN 4 ELSE 7)
        ELSE (IF isEdge THEN 10 ELSE IF isCenter THEN 8
              ELSE IF isCorner THEN 7 ELSE 6)

evaluateEntropy(gameState, position, color) ==
    LET state == gameState.state
        phase == determineGamePhase(state)
        fragmentation == evaluateColorFragmentation(state, position, color)
        symmetry == evaluateSymmetryBreaking(state, position, color)
        gapSpacing == evaluateGapSpacing(state, position)
        zoneControl == evaluateZoneControl(state, position, color)
        edgeStrategy == evaluateEdgeStrategy(state, position, phase)
    IN  fragmentation * 40 + symmetry * 35 + gapSpacing * 15
            + zoneControl * 20 + edgeStrategy * 10

formatChaosMove(position) == [move |-> indexToPosition(position)]

\* the loop of the spoiler strategy from emptyPositions[k] on, scores[k]
\* being evaluateSpoilerPlacement(gameState, emptyPositions[k], color): a
\* position replaces the best one when its score is lower
RECURSIVE SpoilerLoopFrom(_, _, _, _, _)
SpoilerLoopFrom(emptyPositions, scores, k, bestPosition, lowestOrderPotential) ==
    IF k > Len(scores) THEN bestPosition
    ELSE IF scores[k] < lowestOrderPotential
         THEN SpoilerLoopFrom(emptyPositions, scores, k + 1,
                              emptyPositions[k], scores[k])
         ELSE SpoilerLoopFrom(emptyPositions, scores, k + 1,
                              bestPosition, lowestOrderPotential)

\* chaosNextTurn of the spoiler strategy; bestPosition is what it hands to
\* formatChaosMove
chaosNextTurnSpoiler(gameState) ==
    LET emptyPositions == getEmptyPositions(gameState.state)
    IN  SpoilerLoopFrom(emptyPositions,
                        [k \in 1..Len(emptyPositions) |->
                            evaluateSpoilerPlacement(gameState,
                                                     emptyPositions[k],
                                                     gameState.nextToken)],
                        1, emptyPositions[1], Infinity)

\* the loop of the gap creation strategy, scores[k] being
\* evaluateEntropy(gameState, emptyPositions[k], color): a position replaces
\* the best one when its entropy is higher
RECURSIVE GapLoopFrom(_, _, _, _, _)
GapLoopFrom(emptyPositions, scores, k, bestPosition, highestEntropy) ==
    IF k > Len(scores) THEN bestPosition
    ELSE IF scores[k] > highestEntropy
         THEN GapLoopFrom(emptyPositions, scores, k + 1,
                          emptyPositions[k], scores[k])
         ELSE GapLoopFrom(emptyPositions, scores, k + 1,
                          bestPosition, highestEntropy)

\* chaosNextTurn of the gap creation strategy
chaosNextTurnGap(gameState) ==
    LET emptyPositions == getEmptyPositions(gameState.state)
    IN  GapLoopFrom(emptyPositions,
                    [k \in 1..Len(emptyPositions) |->
                        evaluateEntropy(gameState, emptyPositions[k],
                                        gameState.nextToken)],
                    1, emptyPositions[1], 0 - Infinity)

\* combinedScore of chaosNextTurnHybrid, in thousandths: the scores are
\* divided by 100 and the weights are tenths
combinedScoreThousandths(gameState, position) ==
    LET weights == hybridWeights(determineGamePhase(gameState.state))
    IN  (0 - evaluateCompleteSpoilerPlacement(gameState, position))
                * weights.spoilerWeight
            + evaluateEntropy(gameState, position, gameState.nextToken)
                * weights.gapWeight

\* the loop of the hybrid strategy, scores[k] being the combinedScore of
\* emptyPositions[k]
RECURSIVE HybridLoopFrom(_, _, _, _, _)
HybridLoopFrom(emptyPositions, scores, k, bestPosition, bestScore) ==
    IF k > Len(scores) THEN bestPosition
    ELSE IF scores[k] > bestScore
         THEN HybridLoopFrom(emptyPositions, scores, k + 1,
                             emptyPositions[k], scores[k])
         ELSE HybridLoopFrom(emptyPositions, scores, k + 1,
                             bestPosition, bestScore)

chaosNextTurnHybrid(gameState) ==
    LET emptyPositions == getEmptyPositions(gameState.state)
    IN  HybridLoopFrom(emptyPositions,
                       [k \in 1..Len(emptyPositions) |->
                           combinedScoreThousandths(gameState,
                                                    emptyPositions[k])],
                       1, emptyPositions[1], 0 - Infinity)

\* ------------------------------------------------------------ SpecCalls
\* functions called on their own: the arguments are drawn in Init, the
\* action is the call
\* a relabeling of the colors: a function from color to color
Relabel(state, relabeling) ==
    [i \in Cells |-> IF state[i] = "" THEN "" ELSE relabeling[state[i]]]

Identity == [c \in Range(COLORS) |-> c]

Transposition(a, b) ==
    [c \in Range(COLORS) |-> IF c = a THEN b ELSE IF c = b THEN a ELSE c]

Rotation(k) ==
    [c \in Range(COLORS) |->
        COLORS[(((CHOOSE i \in 1..Len(COLORS) : COLORS[i] = c) - 1 + k)
                   % Len(COLORS)) + 1]]

\* the identity, every exchange of two colors, every rotation of the seven
Relabelings ==
    {Identity}
        \cup {Transposition(a, b) : a, b \in Range(COLORS)}
        \cup {Rotation(k) : k \in 1..(Len(COLORS) - 1)}

\* the board whose row `row` is the line, left-aligned
WithRow(row, line) ==
    [i \in Cells |->
        IF i \div 7 = row /\ (i % 7) + 1 <= Len(line) THEN line[(i % 7) + 1]
        ELSE ""]

\* boards with one palindrome of length 2..4 in the middle row
PalindromeBoards == {WithRow(3, p) : p \in {x \in Palindromes : Len(x) <= 4}}

\* boards with exactly one filled cell
SingleTokenBoards == {Holding(i :> c) : i \in Cells, c \in Range(COLORS)}

\* the first n cells, or the last n cells, of the full board
FirstCells(n) == [i \in Cells |-> IF i < n THEN RowPalBoard[i] ELSE ""]
LastCells(n) == [i \in Cells |-> IF i >= 49 - n THEN RowPalBoard[i] ELSE ""]
PhaseBoards ==
    {FirstCells(n) : n \in 0..49} \cup {LastCells(n) : n \in 0..49}
        \cup StartBoards

\* the row of test 'spoiler disrupts forming palindrome': R, a gap, R
GapBoard == WithRow(0, <<"R", "", "R">>)

\* five tokens on a diagonal, with more than 50 slides between them
DiagonalBoard ==
    Holding(8 :> "R" @@ 16 :> "G" @@ 24 :> "Y" @@ 32 :> "B" @@ 40 :> "W")

\* placements handed to evaluateSpoilerPlacement: every color on every empty
\* cell of the test's row, and the colors of the bag on the empty cells of
\* nearly full boards and of a board with many slides
SpoilerInputs ==
    {[fn |-> "evaluateSpoilerPlacement", state |-> GapBoard,
      position |-> p, color |-> c] :
         p \in {1, 3, 4, 5, 6}, c \in Range(COLORS)}
      \cup UNION {{[fn |-> "evaluateSpoilerPlacement", state |-> b,
                    position |-> p, color |-> c] :
                       p \in Range(getEmptyPositions(b)) \cap {0, 24, 25},
                       c \in Drawable(b)} :
                   b \in SearchBoards \cup {DiagonalBoard}}

\* pairs of boards handed to getBoardStateKey: the search's input boards,
\* the unit tests' positions, and every board with a single R
KeyBoards ==
    SearchBoards \cup SparseBoards \cup {Holding(i :> "R") : i \in Cells}

KeyInputs ==
    {[fn |-> "getBoardStateKey", state |-> a, other |-> b] :
        a \in SearchBoards \cup SparseBoards, b \in KeyBoards}

\* game states handed to the evaluators: the boards the games start from,
\* full and empty boards, with every color that can be announced
EvaluatorInputs ==
    UNION {{[state |-> b, nextToken |-> c] :
               c \in Drawable(b) \cup
                        (IF Drawable(b) = {} THEN {""} ELSE {})} :
           b \in StartBoards \cup SparseRedBoards \cup {RowPalBoard}}

HeuristicInputs ==
    {[fn |-> "heuristicOrderNextTurn", gameState |-> g] : g \in EvaluatorInputs}

\* the state of test 'breaks forming palindrome' is an array of 7 elements:
\* reading its cells 7..48 gives undefined, which is neither '' nor a color
ShortState(line) ==
    [i \in Cells |-> IF i + 1 <= Len(line) THEN line[i + 1] ELSE "undefined"]

\* rows with R, an empty cell, R: alone on the board, alone in the test's
\* short array, and with the rest of the row filled
BreakingInputs ==
    {[fn |-> "evaluatePatternBreaking", state |-> b, position |-> 1,
      color |-> c] :
         b \in {GapBoard,
                ShortState(<<"R", "", "R", "", "", "", "">>),
                WithRow(0, <<"R", "", "R", "G", "Y", "B", "W">>),
                WithRow(0, <<"R", "", "R", "G", "Y", "B", "R">>)},
         c \in Range(COLORS) \ {"R"}}

ZoneInputs ==
    {[fn |-> "getColorsInZone", state |-> b, position |-> p] :
        b \in {RowPalBoard, GapBoard}, p \in Cells}

\* boards with more than 50 slides whose only score-raising slides are
\* generated after the 50th: two R's, or three, in the last rows
ManySlidesBoards ==
    { Holding(8 :> "G" @@ 16 :> "Y" @@ 24 :> "B" @@ 32 :> "W"
                @@ 40 :> "R" @@ 46 :> "R"),
      Holding(8 :> "G" @@ 16 :> "Y" @@ 24 :> "B" @@ 32 :> "W"
                @@ 40 :> "R" @@ 46 :> "R" @@ 36 :> "R") }

EstimateInputs ==
    {[fn |-> "estimateOrderBestMove", state |-> b] :
        b \in StartBoards \cup SparseRedBoards \cup ManySlidesBoards
                 \cup {DiagonalBoard, RowPalBoard}}

\* game states handed to the three placer strategies: boards with an empty
\* cell, nearly full, nearly empty and empty, with the colors that can be
\* announced on them
PlacerBoards ==
    (StartBoards \cup SearchBoards \cup {GapBoard, DiagonalBoard})
        \ {b \in StartBoards : isGameOver(b)}

PlacerStrategies ==
    {"chaosNextTurnSpoiler", "chaosNextTurnGap", "chaosNextTurnHybrid"}

PlacerInputs ==
    UNION {{[fn |-> f, gameState |-> [state |-> b, nextToken |-> c]] :
               f \in PlacerStrategies, c \in Drawable(b)} :
           b \in PlacerBoards}

CallInputs ==
    {[fn |-> "indexToPosition", idx |-> i] : i \in Cells}
      \cup {[fn |-> "positionToIndex", pos |-> ROW_LETTERS[r] \o DIGITS[c]] :
               r \in 1..7, c \in 1..7}
      \cup {[fn |-> "determineGamePhase", state |-> b] : b \in PhaseBoards}
      \cup {[fn |-> "calculateFullBoardScore", state |-> b,
             relabeling |-> Identity] :
               b \in SingleTokenBoards \cup {EmptyBoard}}
      \cup {[fn |-> "calculateFullBoardScore", state |-> b,
             relabeling |-> r] :
               b \in StartBoards \cup PalindromeBoards \cup {RowPalBoard},
               r \in Relabelings}
      \cup PlacerInputs
      \cup SpoilerInputs
      \cup KeyInputs
      \cup EstimateInputs
      \cup ZoneInputs
      \cup BreakingInputs
      \cup HeuristicInputs
      \cup {[fn |-> "evaluatePosition", gameState |-> g] :
               g \in EvaluatorInputs}

InitCalls ==
    /\ args \in CallInputs /\ returned = NotReturned /\ uses = <<>>
    /\ NoSearch
    /\ board = EmptyBoard /\ nextToken = "" /\ turn = "none" /\ plies = 0
    /\ last = NoAction /\ sequence = <<>> /\ scored = NotScored
    /\ NoTodoApp

\* indexToPosition(idx), and positionToIndex of what it returned
IndexToPosition ==
    /\ args.fn = "indexToPosition" /\ returned = NotReturned
    /\ returned' = [fn |-> "indexToPosition",
                    value |-> indexToPosition(args.idx),
                    back |-> positionToIndex(indexToPosition(args.idx))]
    /\ UNCHANGED <<todoVars, scoreVars, gameVars, searchVars, args, uses>>

\* positionToIndex(pos), and indexToPosition of what it returned
PositionToIndex ==
    /\ args.fn = "positionToIndex" /\ returned = NotReturned
    /\ returned' = [fn |-> "positionToIndex",
                    value |-> positionToIndex(args.pos),
                    back |-> indexToPosition(positionToIndex(args.pos))]
    /\ UNCHANGED <<todoVars, scoreVars, gameVars, searchVars, args, uses>>

\* determineGamePhase(state), then chaosNextTurnHybrid's choice of weights
DetermineGamePhase ==
    /\ args.fn = "determineGamePhase" /\ returned = NotReturned
    /\ returned' = [fn |-> "determineGamePhase",
                    phase |-> determineGamePhase(args.state),
                    weights |-> hybridWeights(determineGamePhase(args.state))]
    /\ UNCHANGED <<todoVars, scoreVars, gameVars, searchVars, args, uses>>

\* calculateFullBoardScore of the board and of the relabeled board
CalculateFullBoardScore ==
    /\ args.fn = "calculateFullBoardScore" /\ returned = NotReturned
    /\ returned' = [fn |-> "calculateFullBoardScore",
                    score |-> calculateFullBoardScore(args.state),
                    relabeled |-> calculateFullBoardScore(
                                      Relabel(args.state, args.relabeling))]
    /\ UNCHANGED <<todoVars, scoreVars, gameVars, searchVars, args, uses>>

\* evaluateSpoilerPlacement(gameState, position, color), as chaosNextTurn of
\* the spoiler strategy calls it with color = gameState.nextToken
EvaluateSpoilerPlacement ==
    /\ args.fn = "evaluateSpoilerPlacement" /\ returned = NotReturned
    /\ returned' = [fn |-> "evaluateSpoilerPlacement",
                    value |-> evaluateSpoilerPlacement(
                                  [state |-> args.state,
                                   nextToken |-> args.color],
                                  args.position, args.color)]
    /\ UNCHANGED <<todoVars, scoreVars, gameVars, searchVars, args, uses>>

\* getBoardStateKey of two boards, as minimax computes it for the board it
\* stores and for the board it looks up
GetBoardStateKey ==
    /\ args.fn = "getBoardStateKey" /\ returned = NotReturned
    /\ returned' = [fn |-> "getBoardStateKey",
                    key |-> getBoardStateKey(args.state),
                    otherKey |-> getBoardStateKey(args.other)]
    /\ UNCHANGED <<todoVars, scoreVars, gameVars, searchVars, args, uses>>

\* evaluatePosition of the minimax mover, as minimax calls it at a leaf, and
\* evaluatePosition of the heuristic mover, on the same game state
EvaluatePosition ==
    /\ args.fn = "evaluatePosition" /\ returned = NotReturned
    /\ returned' = [fn |-> "evaluatePosition",
                    value |-> evaluatePosition(args.gameState),
                    heuristicTwice |->
                        heuristicEvaluatePositionTwice(args.gameState)]
    /\ UNCHANGED <<todoVars, scoreVars, gameVars, searchVars, args, uses>>

\* orderNextTurn of the heuristic mover
HeuristicOrderNextTurn ==
    /\ args.fn = "heuristicOrderNextTurn" /\ returned = NotReturned
    /\ returned' = [fn |-> "heuristicOrderNextTurn",
                    value |-> heuristicOrderNextTurn(args.gameState)]
    /\ UNCHANGED <<todoVars, scoreVars, gameVars, searchVars, args, uses>>

\* evaluatePatternBreaking(state, position, color) on a state without the
\* token, as the test calls it, and analyzeSequencePotential of the row
EvaluatePatternBreaking ==
    /\ args.fn = "evaluatePatternBreaking" /\ returned = NotReturned
    /\ returned' = [fn |-> "evaluatePatternBreaking",
                    value |-> evaluatePatternBreaking(args.state,
                                  args.position, args.color),
                    rowPotential |->
                        analyzeSequencePotential(
                            getRow(args.state,
                                   indexToCoords(args.position).row))]
    /\ UNCHANGED <<todoVars, scoreVars, gameVars, searchVars, args, uses>>

\* getColorsInZone(state, getZone(position)), as evaluateZoneControl calls it
GetColorsInZone ==
    /\ args.fn = "getColorsInZone" /\ returned = NotReturned
    /\ returned' = [fn |-> "getColorsInZone",
                    zone |-> getZone(args.position),
                    scanned |-> zoneCells(getZone(args.position)),
                    colors |-> getColorsInZone(args.state,
                                               getZone(args.position))]
    /\ UNCHANGED <<todoVars, scoreVars, gameVars, searchVars, args, uses>>

\* estimateOrderBestMove(state)
EstimateOrderBestMove ==
    /\ args.fn = "estimateOrderBestMove" /\ returned = NotReturned
    /\ returned' = [fn |-> "estimateOrderBestMove",
                    value |-> estimateOrderBestMove(args.state)]
    /\ UNCHANGED <<todoVars, scoreVars, gameVars, searchVars, args, uses>>

\* chaosNextTurn(gameState) of the spoiler strategy
ChaosNextTurnSpoiler ==
    /\ args.fn = "chaosNextTurnSpoiler" /\ returned = NotReturned
    /\ returned' = [fn |-> "chaosNextTurnSpoiler",
                    move |-> formatChaosMove(
                                chaosNextTurnSpoiler(args.gameState)).move]
    /\ UNCHANGED <<todoVars, scoreVars, gameVars, searchVars, args, uses>>

\* chaosNextTurn(gameState) of the gap creation strategy
ChaosNextTurnGap ==
    /\ args.fn = "chaosNextTurnGap" /\ returned = NotReturned
    /\ returned' = [fn |-> "chaosNextTurnGap",
                    move |-> formatChaosMove(
                                chaosNextTurnGap(args.gameState)).move]
    /\ UNCHANGED <<todoVars, scoreVars, gameVars, searchVars, args, uses>>

\* chaosNextTurnHybrid(gameState)
ChaosNextTurnHybrid ==
    /\ args.fn = "chaosNextTurnHybrid" /\ returned = NotReturned
    /\ returned' = [fn |-> "chaosNextTurnHybrid",
                    move |-> formatChaosMove(
                                chaosNextTurnHybrid(args.gameState)).move]
    /\ UNCHANGED <<todoVars, scoreVars, gameVars, searchVars, args, uses>>

NextCalls ==
    \/ IndexToPosition
    \/ PositionToIndex
    \/ DetermineGamePhase
    \/ CalculateFullBoardScore
    \/ EvaluateSpoilerPlacement
    \/ GetBoardStateKey
    \/ EvaluatePosition
    \/ HeuristicOrderNextTurn
    \/ EvaluatePatternBreaking
    \/ GetColorsInZone
    \/ EstimateOrderBestMove
    \/ ChaosNextTurnSpoiler
    \/ ChaosNextTurnGap
    \/ ChaosNextTurnHybrid

SpecCalls == InitCalls /\ [][NextCalls]_vars

\* ------------------------------------------------------------ SpecTodo
\* the todo client (TodoList.tsx) and the server behind it (backend/index.ts,
\* backend/db/index.ts).  A todo is [id, completed]; the client's copies also
\* carry isExiting.  The component is rendered again after every update of
\* its state, so a handler started by a click reads the todos of that moment
\* and keeps them in its closure for as long as it runs.

\* the user clicks at most MaxClicks times
MaxClicks == 3

\* todos.map(todo => todo.id === id ? f[todo] : todo), f a function of the
\* todos of the list
mapTodo(list, id, f) ==
    [k \in 1..Len(list) |-> IF list[k].id = id THEN f[list[k]] ELSE list[k]]

\* todos.filter(todo => todo.id !== id)
filterTodo(list, id) == SelectSeq(list, LAMBDA todo : todo.id # id)

\* a row of the table as the client holds it
fromRow(row) == [id |-> row.id, completed |-> row.completed, isExiting |-> FALSE]

\* SELECT * FROM todos ORDER BY created_at DESC: the table is kept newest
\* first
getAllTodos == [k \in 1..Len(table) |-> fromRow(table[k])]

getTodoStats ==
    [total |-> Len(table),
     completed |-> Len(SelectSeq(table, LAMBDA row : row.completed)),
     pending |-> Len(SelectSeq(table, LAMBDA row : ~row.completed))]

hasRow(id) == \E k \in 1..Len(table) : table[k].id = id

\* a handler call started by the click number `clicks`, with the todos of
\* its closure; ok, todo and stats are what its fetches answer
newCall(fn, id, at) ==
    [n |-> clicks, fn |-> fn, id |-> id, todos |-> todos, pc |-> at,
     ok |-> TRUE, todo |-> NoTodo, stats |-> NoStats]

\* the handler calls that wait on a fetch or a timer, by their pc:
\*   "timeout"      handleDeleteTodo waits for its setTimeout
\*   "fetch"        the request is on its way to the server
\*   "await"        the response is on its way to the client
\*   "fetchStats", "awaitStats"   the same for GET /api/todos/stats
Waiting(fn, at) == {c \in calls : c.fn = fn /\ c.pc = at}

InitTodo ==
    /\ todos = <<>> /\ stats = NoStats
    /\ isLoading = TRUE /\ isSubmitting = FALSE
    /\ table = <<[id |-> 1, completed |-> FALSE]>> /\ serial = 2
    /\ calls = {} /\ failed = FALSE /\ clicks = 0
    /\ NoSearch /\ NoCall
    /\ board = EmptyBoard /\ nextToken = "" /\ turn = "none" /\ plies = 0
    /\ last = NoAction /\ sequence = <<>> /\ scored = NotScored

\* loadTodos, run once by useEffect while the spinner is shown
LoadTodos ==
    /\ isLoading
    /\ todos' = getAllTodos
    /\ stats' = getTodoStats
    /\ isLoading' = FALSE
    /\ UNCHANGED <<isSubmitting, table, serial, calls, failed, clicks>>
    /\ UNCHANGED <<scoreVars, gameVars, searchVars, callVars>>

\* addTodo up to its fetch: the input holds a title
AddTodo ==
    /\ ~isLoading /\ clicks < MaxClicks
    /\ ~isSubmitting
    /\ isSubmitting' = TRUE
    /\ calls' = calls \cup {newCall("addTodo", 0, "fetch")}
    /\ clicks' = clicks + 1
    /\ UNCHANGED <<todos, stats, isLoading, table, serial, failed>>
    /\ UNCHANGED <<scoreVars, gameVars, searchVars, callVars>>

\* toggleTodo(id) up to its fetch: the optimistic update
ToggleTodo ==
    /\ ~isLoading /\ clicks < MaxClicks
    /\ \E k \in 1..Len(todos) :
          LET id == todos[k].id
              flip == [todo \in Range(todos) |->
                          [todo EXCEPT !.completed = ~todo.completed]]
          IN  /\ todos' = mapTodo(todos, id, flip)
              /\ calls' = calls \cup {newCall("toggleTodo", id, "fetch")}
    /\ clicks' = clicks + 1
    /\ UNCHANGED <<stats, isLoading, isSubmitting, table, serial, failed>>
    /\ UNCHANGED <<scoreVars, gameVars, searchVars, callVars>>

\* handleDeleteTodo(id) up to setTimeout: the todo is marked as exiting
HandleDeleteTodo ==
    /\ ~isLoading /\ clicks < MaxClicks
    /\ \E k \in 1..Len(todos) :
          LET id == todos[k].id
              exit == [todo \in Range(todos) |->
                          [todo EXCEPT !.isExiting = TRUE]]
          IN  /\ todos' = mapTodo(todos, id, exit)
              /\ calls' = calls \cup {newCall("handleDeleteTodo", id, "timeout")}
    /\ clicks' = clicks + 1
    /\ UNCHANGED <<stats, isLoading, isSubmitting, table, serial, failed>>
    /\ UNCHANGED <<scoreVars, gameVars, searchVars, callVars>>

\* the timer of handleDeleteTodo fires: the DELETE is sent
DeleteTimeout ==
    /\ \E c \in Waiting("handleDeleteTodo", "timeout") :
          calls' = (calls \ {c}) \cup {[c EXCEPT !.pc = "fetch"]}
    /\ UNCHANGED <<todos, stats, isLoading, isSubmitting, table, serial,
                   failed, clicks>>
    /\ UNCHANGED <<scoreVars, gameVars, searchVars, callVars>>

\* POST /api/todos: createTodo
ServePost ==
    /\ \E c \in Waiting("addTodo", "fetch") :
          LET row == [id |-> serial, completed |-> FALSE]
          IN  /\ table' = <<row>> \o table
              /\ serial' = serial + 1
              /\ calls' = (calls \ {c}) \cup
                    {[c EXCEPT !.pc = "await", !.ok = TRUE,
                               !.todo = fromRow(row)]}
    /\ UNCHANGED <<todos, stats, isLoading, isSubmitting, failed, clicks>>
    /\ UNCHANGED <<scoreVars, gameVars, searchVars, callVars>>

\* PUT /api/todos/:id: toggleTodoComplete, or 404 when no row has the id
ServePut ==
    /\ \E c \in Waiting("toggleTodo", "fetch") :
          LET toggled == [k \in 1..Len(table) |->
                             IF table[k].id = c.id
                             THEN [table[k] EXCEPT
                                      !.completed = ~table[k].completed]
                             ELSE table[k]]
              row == CHOOSE r \in Range(toggled) : r.id = c.id
          IN  IF hasRow(c.id)
              THEN /\ table' = toggled
                   /\ calls' = (calls \ {c}) \cup
                         {[c EXCEPT !.pc = "await", !.ok = TRUE,
                                    !.todo = fromRow(row)]}
              ELSE /\ calls' = (calls \ {c}) \cup
                         {[c EXCEPT !.pc = "await", !.ok = FALSE]}
                   /\ UNCHANGED table
    /\ UNCHANGED <<todos, stats, isLoading, isSubmitting, serial, failed,
                   clicks>>
    /\ UNCHANGED <<scoreVars, gameVars, searchVars, callVars>>

\* DELETE /api/todos/:id: deleteTodo, 204, or 404 when no row has the id
ServeDelete ==
    /\ \E c \in Waiting("handleDeleteTodo", "fetch") :
          /\ table' = SelectSeq(table, LAMBDA row : row.id # c.id)
          /\ calls' = (calls \ {c}) \cup
                {[c EXCEPT !.pc = "await", !.ok = hasRow(c.id)]}
    /\ UNCHANGED <<todos, stats, isLoading, isSubmitting, serial, failed,
                   clicks>>
    /\ UNCHANGED <<scoreVars, gameVars, searchVars, callVars>>

\* GET /api/todos/stats
ServeStats ==
    /\ \E c \in {x \in calls : x.pc = "fetchStats"} :
          calls' = (calls \ {c}) \cup
                {[c EXCEPT !.pc = "awaitStats", !.stats = getTodoStats]}
    /\ UNCHANGED <<todos, stats, isLoading, isSubmitting, table, serial,
                   failed, clicks>>
    /\ UNCHANGED <<scoreVars, gameVars, searchVars, callVars>>

\* addTodo from the response of its POST to its fetch of the stats.  POST
\* answers 201 to a title that is a non-empty string.
AddTodoResponse ==
    /\ \E c \in Waiting("addTodo", "await") :
          /\ todos' = <<c.todo>> \o todos
          /\ calls' = (calls \ {c}) \cup {[c EXCEPT !.pc = "fetchStats"]}
    /\ UNCHANGED <<stats, isLoading, isSubmitting, table, serial, failed,
                   clicks>>
    /\ UNCHANGED <<scoreVars, gameVars, searchVars, callVars>>

\* toggleTodo from the response of its PUT: the todos of its closure with
\* the updated todo and the fetch of the stats, or in the catch the todos of
\* its closure (originalTodos)
ToggleTodoResponse ==
    /\ \E c \in Waiting("toggleTodo", "await") :
          LET updatedTodo == [todo \in Range(c.todos) |-> c.todo]
          IN  IF c.ok
              THEN /\ todos' = mapTodo(c.todos, c.id, updatedTodo)
                   /\ calls' = (calls \ {c}) \cup
                         {[c EXCEPT !.pc = "fetchStats"]}
                   /\ UNCHANGED failed
              ELSE /\ todos' = c.todos
                   /\ calls' = calls \ {c}
                   /\ failed' = TRUE
    /\ UNCHANGED <<stats, isLoading, isSubmitting, table, serial, clicks>>
    /\ UNCHANGED <<scoreVars, gameVars, searchVars, callVars>>

\* the timer callback of handleDeleteTodo from the response of its DELETE:
\* the todos of its closure without the todo and the fetch of the stats, or
\* in the catch the todos of its closure with isExiting false
DeleteTodoResponse ==
    /\ \E c \in Waiting("handleDeleteTodo", "await") :
          LET stay == [todo \in Range(c.todos) |->
                          [todo EXCEPT !.isExiting = FALSE]]
          IN  IF c.ok
              THEN /\ todos' = filterTodo(c.todos, c.id)
                   /\ calls' = (calls \ {c}) \cup
                         {[c EXCEPT !.pc = "fetchStats"]}
                   /\ UNCHANGED failed
              ELSE /\ todos' = mapTodo(c.todos, c.id, stay)
                   /\ calls' = calls \ {c}
                   /\ failed' = TRUE
    /\ UNCHANGED <<stats, isLoading, isSubmitting, table, serial, clicks>>
    /\ UNCHANGED <<scoreVars, gameVars, searchVars, callVars>>

\* a handler from the response of its fetch of the stats to its end;
\* addTodo's finally clears isSubmitting
StatsResponse ==
    /\ \E c \in {x \in calls : x.pc = "awaitStats"} :
          /\ stats' = c.stats
          /\ calls' = calls \ {c}
          /\ isSubmitting' = IF c.fn = "addTodo" THEN FALSE ELSE isSubmitting
    /\ UNCHANGED <<todos, isLoading, table, serial, failed, clicks>>
    /\ UNCHANGED <<scoreVars, gameVars, searchVars, callVars>>

NextTodo ==
    \/ LoadTodos
    \/ AddTodo
    \/ ToggleTodo
    \/ HandleDeleteTodo
    \/ DeleteTimeout
    \/ ServePost
    \/ ServePut
    \/ ServeDelete
    \/ ServeStats
    \/ AddTodoResponse
    \/ ToggleTodoResponse
    \/ DeleteTodoResponse
    \/ StatsResponse

SpecTodo == InitTodo /\ [][NextTodo]_vars

\* ------------------------------------------------------------ plain search
\* iterativeDeepening and minimax as functions of the board and the depth:
\* the code with shouldStop() false throughout and the transposition table
\* never holding an entry.
RECURSIVE minimaxPlain(_, _, _, _, _)
RECURSIVE maximizingPlayerFrom(_, _, _, _, _, _, _)
RECURSIVE minimizingPlayerFrom(_, _, _, _, _, _, _)

minimaxPlain(state, d, alpha, beta, isMaximizing) ==
    IF d = 0 \/ isGameOver(state) THEN evaluatePosition(gameStateOf(state))
    ELSE IF isMaximizing
    THEN LET passEval == minimaxPlain(state, d - 1, alpha, beta, FALSE)
             maxEval == Max(0 - Infinity, passEval)
         IN  maximizingPlayerFrom(state, d, Max(alpha, maxEval), beta, maxEval,
                 orderMovesByHeuristic(state, getAllLegalMoves(state)), 1)
    ELSE minimizingPlayerFrom(state, d, alpha, beta, Infinity,
             orderChaosPlacementsByHeuristic(state, getEmptyPositions(state),
                                             nextToken), 1)

maximizingPlayerFrom(state, d, alpha, beta, maxEval, orderedMoves, k) ==
    IF k > Len(orderedMoves) \/ cutoff(alpha, beta) THEN maxEval
    ELSE LET eval == minimaxPlain(applyMove(state, orderedMoves[k]), d - 1,
                                  alpha, beta, FALSE)
         IN  maximizingPlayerFrom(state, d, Max(alpha, eval), beta,
                                  Max(maxEval, eval), orderedMoves, k + 1)

minimizingPlayerFrom(state, d, alpha, beta, minEval, orderedPositions, k) ==
    IF k > Len(orderedPositions) \/ cutoff(alpha, beta) THEN minEval
    ELSE LET eval == minimaxPlain(
                         applyPlacement(state, orderedPositions[k], nextToken),
                         d - 1, alpha, beta, TRUE)
         IN  minimizingPlayerFrom(state, d, alpha, Min(beta, eval),
                                  Min(minEval, eval), orderedPositions, k + 1)

RECURSIVE iterativeDeepeningFrom(_, _, _, _, _, _)
iterativeDeepeningFrom(state, maxDepth, orderedMoves, k, move, score) ==
    IF k > Len(orderedMoves) THEN [score |-> score, move |-> move]
    ELSE LET s == minimaxPlain(applyMove(state, orderedMoves[k]), maxDepth - 1,
                               0 - Infinity, Infinity, FALSE)
         IN  IF s > score
             THEN iterativeDeepeningFrom(state, maxDepth, orderedMoves, k + 1,
                                         orderedMoves[k], s)
             ELSE iterativeDeepeningFrom(state, maxDepth, orderedMoves, k + 1,
                                         move, score)

iterativeDeepeningPlain(state, maxDepth) ==
    iterativeDeepeningFrom(state, maxDepth,
        orderMovesByHeuristic(state, getAllLegalMoves(state)), 1,
        null, 0 - Infinity)

\* ------------------------------------------------------------ properties
\* the sum of f[x] over the x of S
RECURSIVE SetSum(_, _)
SetSum(S, f) ==
    IF S = {} THEN 0
    ELSE LET x == CHOOSE x \in S : TRUE IN f[x] + SetSum(S \ {x}, f)

Reverse(seq) == [i \in 1..Len(seq) |-> seq[Len(seq) + 1 - i]]

\* the contiguous sub-runs <<s, e>> of length >= 2 that read the same both ways
PalindromicRuns(filled) ==
    {r \in (1..Len(filled)) \X (1..Len(filled)) :
        r[1] < r[2] /\ SubSeq(filled, r[1], r[2])
                          = Reverse(SubSeq(filled, r[1], r[2]))}

\* the shape of a run: position i gets the rank of its color's first occurrence
RECURSIVE ShapeFrom(_, _)
ShapeFrom(run, i) ==
    IF i > Len(run) THEN ""
    ELSE LET first == CHOOSE j \in 1..i :
                          run[j] = run[i] /\ \A k \in 1..(j - 1) : run[k] # run[i]
         IN  LETTERS[Cardinality({run[k] : k \in 1..first})]
                 \o ShapeFrom(run, i + 1)

TableValue(run) ==
    IF ShapeFrom(run, 1) \in DOMAIN PALINDROME_SCORES
    THEN PALINDROME_SCORES[ShapeFrom(run, 1)] ELSE -1

RunSum(line) ==
    LET filled == filledOf(line)
    IN  SetSum(PalindromicRuns(filled),
               [r \in PalindromicRuns(filled) |->
                   TableValue(SubSeq(filled, r[1], r[2]))])

LineSum(state) ==
    SetSum(0..6, [r \in 0..6 |-> RunSum(getRow(state, r))])
        + SetSum(0..6, [c \in 0..6 |-> RunSum(getColumn(state, c))])

C5_LineScoresTableValue ==
    scored.op = "scoreSequence" /\ Len(sequence) = 7 =>
        /\ (\A i \in 1..7 : sequence[i] = sequence[1] /\ sequence[1] # "")
               => scored.score = 77
        /\ (Len(filledOf(sequence)) = 5
            /\ isPalindrome(filledOf(sequence))
            /\ ShapeFrom(filledOf(sequence), 1) = "ABCBA")
               => scored.score = 8

\* the score table of the design, by pattern signature
DesignScoreTable ==
    [ AA |-> 2, ABA |-> 3, AAA |-> 7, ABBA |-> 6, AAAA |-> 16, ABCBA |-> 8,
      AABAA |-> 12, ABABA |-> 14, ABBBA |-> 12, AAAAA |-> 30, AABBAA |-> 16,
      ABAABA |-> 18, ABBBBA |-> 22, ABCCBA |-> 12, AAAAAA |-> 50,
      ABCDCBA |-> 15, AAABAAA |-> 29, AABABAA |-> 25, AABBBAA |-> 23,
      AABCBAA |-> 19, ABAAABA |-> 25, ABABABA |-> 27, ABACABA |-> 21,
      ABBABBA |-> 27, ABBBBBA |-> 37, ABBCBBA |-> 19, ABCACBA |-> 15,
      ABCBCBA |-> 21, ABCCCBA |-> 19, AAAAAAA |-> 77 ]

\* C6: the signature of every palindrome of length 2..7 over the 7 colors is one
\* of the 30 keys of the table, scorePalindrome returns the design's value for
\* it, and so never the length fallback.
C6_TableTotalOnPalindromes ==
    scored.op = "scorePalindrome" =>
        /\ Cardinality(DOMAIN PALINDROME_SCORES) = 30
        /\ scored.signature \in DOMAIN PALINDROME_SCORES
        /\ scored.signature \in DOMAIN DesignScoreTable
        /\ scored.score = DesignScoreTable[scored.signature]

C6_Witness ==
    /\ scored.op = "scorePalindrome"
    /\ sequence = <<"P", "K", "W", "B", "W", "K", "P">>
    /\ scored.signature = "ABCDCBA"
    /\ scored.score = 15

\* the cells after `from` up to and including `to`, along their shared line
Path(from, to) ==
    IF to \div 7 = from \div 7
    THEN {7 * (from \div 7) + c : c \in
             IF from % 7 < to % 7 THEN ((from % 7) + 1)..(to % 7)
             ELSE (to % 7)..((from % 7) - 1)}
    ELSE {7 * r + (from % 7) : r \in
             IF from \div 7 < to \div 7 THEN ((from \div 7) + 1)..(to \div 7)
             ELSE (to \div 7)..((from \div 7) - 1)}

LegalSlides(state) ==
    {m \in [from : {i \in Cells : state[i] # ""},
            to : {i \in Cells : state[i] = ""}] :
        /\ m.to # m.from
        /\ (m.to \div 7 = m.from \div 7 \/ m.to % 7 = m.from % 7)
        /\ \A i \in Path(m.from, m.to) : state[i] = ""}

SlidesToward(dRow, dCol) ==
    {k \in 1..Len(last.moves) :
        \E n \in 1..6 :
            /\ last.moves[k].to \div 7 = 3 + n * dRow
            /\ last.moves[k].to % 7 = 3 + n * dCol}

LoneTokenOn24 ==
    /\ last.op \in {"applyMove", "pass"}
    /\ last.state[24] # ""
    /\ \A i \in Cells \ {24} : last.state[i] = ""

C9_DeltaEqualsFullDifference ==
    last.op = "applyMove" =>
        calculateScoreDelta(last.state, board, last.move)
            = calculateFullBoardScore(board)
                  - calculateFullBoardScore(last.state)

C9_Witness ==
    /\ last.op = "applyMove"
    /\ last.move.from \div 7 # last.move.to \div 7
    /\ calculateScoreDelta(last.state, board, last.move) > 0
    /\ scoreSequence(getRow(board, last.move.to \div 7))
           > scoreSequence(getRow(last.state, last.move.to \div 7))

\* C10: a slide's result has 49 cells, the origin empty, the destination holding
\* the origin's color and every other cell as before; a placement's result has
\* the target holding the given color and every other cell as before.
C10_ApplyChangesOnlyNamedCells ==
    /\ last.op = "applyMove" =>
         /\ DOMAIN board = Cells
         /\ board[last.move.from] = ""
         /\ board[last.move.to] = last.state[last.move.from]
         /\ \A i \in Cells \ {last.move.from, last.move.to} :
                board[i] = last.state[i]
    /\ last.op = "applyPlacement" =>
         /\ DOMAIN board = Cells
         /\ board[last.position] = last.color
         /\ \A i \in Cells \ {last.position} : board[i] = last.state[i]

C10_Witness ==
    /\ last.op = "applyMove"
    /\ last.state[last.move.from] = "G"
    /\ board[last.move.to] = "G"
    /\ \E i \in Cells \ {last.move.from, last.move.to} : board[i] # ""

\* the call of iterativeDeepening that returned last
LastIteration == iters[Len(iters)]
IterationReturned == pc = "orderNextTurn" /\ stack = <<>> /\ iters # <<>>

\* With capacity 0 the table never holds an entry; while the deadline has not
\* expired, the stepwise search returns what the plain search computes.
SearchWithoutCacheIsPlain ==
    (IterationReturned /\ maxSize = 0 /\ ~LastIteration.expired)
        => /\ LastIteration.score
                  = iterativeDeepeningPlain(board, LastIteration.depth).score
           /\ LastIteration.move
                  = iterativeDeepeningPlain(board, LastIteration.depth).move

\* while orderNextTurn runs, exactly one thing is due: entering the call
\* just made, handing a returned value to the caller's frame, or the loop
\* head of the innermost open call
StepDue ==
    /\ (call = <<>> \/ ret = <<>>)
    /\ stack = <<>> => call = <<>> /\ ret = <<>>
    /\ stack # <<>> =>
         /\ Top.fn \in {"iterativeDeepening", "maximizingPlayer",
                         "minimizingPlayer"}
         /\ Top.fn = "iterativeDeepening" => Len(stack) = 1
         /\ call = <<>> /\ ret = <<>> /\ Top.fn # "iterativeDeepening"
                => Top.at <= Len(IF Top.fn = "maximizingPlayer"
                                 THEN Top.orderedMoves
                                 ELSE Top.orderedPositions) + 1

\* C1: orderNextTurn always returns, whatever the deadline does, and what it
\* returns is "pass" or the text of a slide that is legal on the input board;
\* it is "pass" whenever the input board has no legal slide.
C1_ReturnsPassOrLegalSlide ==
    /\ pc = "orderNextTurn" => StepDue
    /\ pc = "returned" =>
         /\ \/ result = "pass"
            \/ \E m \in Range(getAllLegalMoves(board)) :
                  result = indexToPosition(m.from) \o "-"
                               \o indexToPosition(m.to)
         /\ bestMove = null \/ bestMove \in Range(getAllLegalMoves(board))
         /\ getAllLegalMoves(board) = <<>> => result = "pass"

\* a slide is returned although the deadline cut the last iteration short
C1_Witness ==
    /\ pc = "returned" /\ clock = "expired" /\ result # "pass"
    /\ LastIteration.interrupted

\* C2: the move kept by orderNextTurn is the best move of the deepest
\* iteration whose root loop was not cut short by the deadline.
Completed == {k \in 1..Len(iters) : ~iters[k].interrupted}

C2_KeepsBestOfDeepestCompletedIteration ==
    Completed # {} =>
        bestMove = iters[CHOOSE k \in Completed :
                            \A j \in Completed : j <= k].move

\* C3: each iteration that ends before the deadline returns, with the
\* transposition table in use, the score and the move of the plain search of
\* the same depth.
C3_CachedSearchEqualsPlainSearch ==
    (IterationReturned /\ ~LastIteration.expired)
        => /\ LastIteration.score
                  = iterativeDeepeningPlain(board, LastIteration.depth).score
           /\ LastIteration.move
                  = iterativeDeepeningPlain(board, LastIteration.depth).move

\* the position in `uses` of the last use of key: a set, or a get that hit
LastUse(key) ==
    LET at == {i \in 1..Len(uses) : uses[i].key = key /\ uses[i].hit}
    IN  IF at = {} THEN 0 ELSE CHOOSE i \in at : \A j \in at : j <= i

LastSet(key) ==
    LET at == {i \in 1..Len(uses) : uses[i].key = key /\ uses[i].op = "set"}
    IN  CHOOSE i \in at : \A j \in at : j <= i

UsedKeys == {k \in CacheKeys : LastUse(k) > 0}

\* the maxSize most recently used keys
MostRecentlyUsed ==
    {k \in UsedKeys :
        Cardinality({o \in UsedKeys : LastUse(o) > LastUse(k)}) < maxSize}

\* C13: the cache holds at most maxSize entries, one per key: the most
\* recently used keys, oldest use first, each with the value last set for it;
\* a get that hits returns that value; with capacity 2, after set(a), set(b),
\* set(c) the key a is absent and b, c are present.
C13_HoldsTheMostRecentlyUsed ==
    args.fn = "LRUCache" =>
        /\ Len(cache) <= maxSize
        /\ {cache[i].key : i \in 1..Len(cache)} = MostRecentlyUsed
        /\ \A i, j \in 1..Len(cache) :
              i < j => LastUse(cache[i].key) < LastUse(cache[j].key)
        /\ \A i \in 1..Len(cache) :
              cache[i].value = uses[LastSet(cache[i].key)].value
        /\ \A i \in 1..Len(uses) :
              (uses[i].op = "get" /\ uses[i].hit) =>
                  \E j \in 1..(i - 1) :
                      /\ uses[j].op = "set" /\ uses[j].key = uses[i].key
                      /\ uses[j].value = uses[i].value
                      /\ \A k \in (j + 1)..(i - 1) :
                            ~(uses[k].op = "set" /\ uses[k].key = uses[i].key)
        /\ (/\ maxSize = 2 /\ Len(uses) = 3
            /\ \A i \in 1..3 : uses[i].op = "set"
            /\ <<uses[1].key, uses[2].key, uses[3].key>> = <<"a", "b", "c">>)
              => /\ ~cacheHas(cache, "a")
                 /\ cacheHas(cache, "b") /\ cacheHas(cache, "c")

\* set(a), set(b), a get of a that hits, then set(c) at capacity 2: b, the
\* least recently used, is the one evicted
C13_Witness ==
    /\ args.fn = "LRUCache" /\ maxSize = 2 /\ Len(uses) = 4
    /\ <<uses[1].op, uses[2].op, uses[3].op, uses[4].op>>
           = <<"set", "set", "get", "set">>
    /\ <<uses[1].key, uses[2].key, uses[3].key, uses[4].key>>
           = <<"a", "b", "a", "c">>
    /\ uses[3].hit
    /\ <<cache[1].key, cache[2].key>> = <<"a", "c">>

FilledCount(state) == Cardinality({i \in Cells : state[i] # ""})

\* C15: a board and the same board with its colors relabeled by a
\* permutation have the same total score.
C15_ScoreUnchangedByRelabeling ==
    returned.fn = "calculateFullBoardScore" =>
        returned.relabeled = returned.score

\* a scoring board whose colors were really exchanged
C15_Witness ==
    /\ returned.fn = "calculateFullBoardScore"
    /\ returned.score > 0
    /\ Relabel(args.state, args.relabeling) # args.state

\* C16: the empty board and every board with exactly one filled cell score 0.
C16_EmptyAndSingleTokenScoreZero ==
    (returned.fn = "calculateFullBoardScore" /\ FilledCount(args.state) <= 1)
        => returned.score = 0

C16_Witness ==
    /\ returned.fn = "calculateFullBoardScore"
    /\ FilledCount(args.state) = 1 /\ args.state[24] = "P"

\* C17: the phase depends on the number of filled cells only: early below 16,
\* mid from 16 to 34, late from 35; the (disruption, entropy) weights are
\* (0.4, 0.6), (0.6, 0.4), (0.8, 0.2), sum to 1, and entropy weighs more in
\* the early phase than in the late one.  Weights in tenths.
C17_PhaseAndWeightsFromFilledCount ==
    returned.fn = "determineGamePhase" =>
        LET n == FilledCount(args.state)
        IN  /\ returned.phase = (IF n <= 15 THEN "early"
                                 ELSE IF n <= 34 THEN "mid" ELSE "late")
            /\ returned.phase = "early" =>
                   returned.weights = [spoilerWeight |-> 4, gapWeight |-> 6]
            /\ returned.phase = "mid" =>
                   returned.weights = [spoilerWeight |-> 6, gapWeight |-> 4]
            /\ returned.phase = "late" =>
                   returned.weights = [spoilerWeight |-> 8, gapWeight |-> 2]
            /\ returned.weights.spoilerWeight + returned.weights.gapWeight = 10
            /\ hybridWeights("early").gapWeight
                   > hybridWeights("late").gapWeight

\* the first count that is mid
C17_Witness ==
    /\ returned.fn = "determineGamePhase"
    /\ FilledCount(args.state) = 16 /\ returned.phase = "mid"

MaxFrames == 1 + 4
\* above the rank of any open call: a board has at most 49 tokens with at
\* most 12 slides each, and at most 49 empty cells
NoFrame == 3 * (12 * TOTAL_SQUARES + 2)

FrameRank(i) ==
    LET frame == stack[i]
        list == IF frame.fn = "minimizingPlayer" THEN frame.orderedPositions
                ELSE frame.orderedMoves
        phase == IF i < Len(stack) \/ call # <<>> THEN 1
                 ELSE IF ret # <<>> THEN 0 ELSE 2
    IN  3 * (Len(list) + 1 - frame.at) + phase

Rank ==
    <<IF pc = "returned" THEN 0
      ELSE 2 * (5 - depth) + (IF stack = <<>> THEN 1 ELSE 0)>>
        \o [i \in 1..MaxFrames |->
               IF i <= Len(stack) THEN FrameRank(i) ELSE NoFrame]

LexLess(a, b) ==
    \E i \in 1..Len(a) : a[i] < b[i] /\ \A j \in 1..(i - 1) : a[j] = b[j]

\* C14: orderNextTurn terminates (every step of the search brings it nearer
\* to its end, and the distance cannot fall for ever); its iterations are at
\* depths 1, 2, 3, 4 in that order, the first at depth 1, none deeper than 4,
\* and none is started when 500 ms or less remain.
C14_IterationsInOrderAndTerminates ==
    /\ [](/\ Len(iters) <= 4
          /\ \A k \in 1..Len(iters) : iters[k].depth = k
          /\ Len(stack) <= MaxFrames
          /\ \A i \in 1..(MaxFrames + 1) : Rank[i] >= 0 /\ Rank[i] <= NoFrame
          /\ \A i \in 1..Len(stack) : Rank[i + 1] < NoFrame)
    /\ [][(stack = <<>> /\ stack' # <<>>) =>
             /\ clock = "early"
             /\ stack'[1].fn = "iterativeDeepening"
             /\ stack'[1].maxDepth = Len(iters) + 1
             /\ stack'[1].maxDepth <= 4]_vars
    /\ [][(pc = "orderNextTurn" /\ pc' = "returned") =>
             (clock # "early" \/ Len(iters) = 4)]_vars
    /\ [][(pc = "orderNextTurn" /\ clock' = clock) => LexLess(Rank', Rank)]_vars

\* the deadline stopped the iterations after depth 2
C14_Witness ==
    /\ pc = "returned" /\ Len(iters) = 2 /\ ~iters[2].interrupted

Finite(value) == value > 0 - Infinity /\ value < Infinity

PassValue(maxDepth) ==
    minimaxPlain(board, maxDepth - 1, 0 - Infinity, Infinity, FALSE)

\* C20: an iteration that ends before the deadline returns a slide only when
\* the slide's searched value is strictly greater than the searched value of
\* passing.
C20_SlideOnlyWhenBetterThanPass ==
    (IterationReturned /\ ~LastIteration.expired /\ LastIteration.move # null)
        => LastIteration.score > PassValue(LastIteration.depth)

\* three R's next to each other among the filled cells of the line
HasRRR(line) ==
    LET filled == filledOf(line)
    IN  \E i \in 1..(Len(filled) - 2) :
           filled[i] = "R" /\ filled[i + 1] = "R" /\ filled[i + 2] = "R"

RaisesScore(state, move) ==
    calculateFullBoardScore(applyMove(state, move))
        > calculateFullBoardScore(state)

\* the slide completes RRR in some line and raises the board score
CompletesRRR(state, move) ==
    /\ RaisesScore(state, move)
    /\ \E k \in 1..14 :
          /\ HasRRR(BoardLines(applyMove(state, move))[k])
          /\ ~HasRRR(BoardLines(state)[k])

\* C11: when some legal slide completes RRR in a line and raises the score,
\* every iteration that ends before the deadline returns a slide that
\* raises the board score. On RedColumnBoard the slide 24 -> 23 completes
\* RRR in column 2 for +7, and the depth-1 iteration returns 16 -> 23, which
\* leaves the score as it is: the other terms of evaluatePosition (pattern
\* potential, board control, chaos opportunities) make up for the 7 points.
C11_ReturnsScoreIncreasingSlide ==
    (/\ IterationReturned /\ ~LastIteration.expired
     /\ \E m \in Range(getAllLegalMoves(board)) : CompletesRRR(board, m))
        => /\ LastIteration.move # null
           /\ RaisesScore(board, LastIteration.move)

\* C12: on the board whose only tokens are R on cells 0 and 2, for every
\* announced color other than R, evaluateSpoilerPlacement's value for the
\* cell between the two R's (cell 1) is at most its value for any other
\* empty cell of row 0. The code gives 210 for cell 1 and 200 for cell 3.
C12_GapCellScoresLowest ==
    (/\ returned.fn = "evaluateSpoilerPlacement"
     /\ args.state = GapBoard /\ args.color # "R"
     /\ args.position \in {3, 4, 5, 6})
        => evaluateSpoilerPlacement(
               [state |-> args.state, nextToken |-> args.color],
               1, args.color) <= returned.value

\* C21: two boards that differ in some cell never get the same
\* getBoardStateKey. state.join('') drops the empty cells, so a single R on
\* cell 24 and a single R on cell 0 both get the key "R".
C21_KeyIsInjective ==
    (returned.fn = "getBoardStateKey" /\ args.state # args.other)
        => returned.key # returned.otherKey

\* the greatest and the least element of a non-empty set of integers
SetMax(S) == CHOOSE x \in S : \A y \in S : y <= x
SetMin(S) == CHOOSE x \in S : \A y \in S : x <= y

\* minimax over the whole tree, without a window: the mover takes the
\* greatest value among the pass and all slides, the placer the least value
\* among all empty cells with the announced color
RECURSIVE minimaxFull(_, _, _)
minimaxFull(state, d, isMaximizing) ==
    IF d = 0 \/ isGameOver(state) THEN evaluatePosition(gameStateOf(state))
    ELSE IF isMaximizing
    THEN SetMax({minimaxFull(state, d - 1, FALSE)} \cup
                {minimaxFull(applyMove(state, m), d - 1, FALSE) :
                    m \in Range(getAllLegalMoves(state))})
    ELSE SetMin({minimaxFull(applyPlacement(state, p, nextToken), d - 1, TRUE) :
                    p \in Range(getEmptyPositions(state))})

\* the first slide of orderedMoves whose minimaxFull value is the greatest
FullChoice(state, maxDepth) ==
    LET orderedMoves == orderMovesByHeuristic(state, getAllLegalMoves(state))
        value == [k \in 1..Len(orderedMoves) |->
                     minimaxFull(applyMove(state, orderedMoves[k]),
                                 maxDepth - 1, FALSE)]
    IN  IF Len(orderedMoves) = 0 THEN null
        ELSE orderedMoves[CHOOSE k \in 1..Len(orderedMoves) :
                 /\ \A j \in 1..Len(orderedMoves) : value[j] <= value[k]
                 /\ \A j \in 1..(k - 1) : value[j] < value[k]]

\* C22: with the transposition table switched off (capacity 0) and the
\* deadline not expired, the value minimax returns to iterativeDeepening for
\* each root slide is the slide's value under minimax without pruning, and
\* the slide an iteration returns is the first one of the greatest such
\* value.
C22_AlphaBetaEqualsPlainMinimax ==
    /\ (/\ maxSize = 0 /\ clock # "expired"
        /\ Returning("iterativeDeepening"))
           => ret[1] = minimaxFull(applyMove(board, Top.orderedMoves[Top.at]),
                                   Top.maxDepth - 1, FALSE)
    /\ (/\ maxSize = 0 /\ IterationReturned /\ ~LastIteration.expired)
           => LastIteration.move = FullChoice(board, LastIteration.depth)

\* a cutoff with children left over, in a search without table and expiry
C22_Witness ==
    /\ maxSize = 0 /\ clock # "expired"
    /\ \/ /\ Returning("minimizingPlayer")
          /\ Top.at < Len(Top.orderedPositions)
          /\ Min(Top.beta, ret[1]) <= Top.alpha
       \/ /\ Returning("maximizingPlayer")
          /\ Top.at > 0 /\ Top.at < Len(Top.orderedMoves)
          /\ Top.beta <= Max(Top.alpha, ret[1])

\* C23: the evaluator minimax applies at its leaves returns, for every game
\* state, the value of the heuristic mover's evaluatePosition, the
\* six-component sum with the weights 100, 50, 30, -40, 20, 25. The code's
\* leaf evaluator has four components with the weights 100, 50, 20, -30.
C23_LeafEvaluatorIsHeuristicEvaluator ==
    returned.fn = "evaluatePosition"
        => 2 * returned.value = returned.heuristicTwice

\* the first generated slide of the greatest heuristic evaluation when that
\* evaluation is greater than the current position's, else no move
BestOfAllSlides(gameState) ==
    LET moves == generateLegalMoves(gameState.state)
        value == [k \in 1..Len(moves) |->
                     heuristicEvaluatePositionTwice(
                         [gameState EXCEPT
                             !.state = applyMove(gameState.state, moves[k])])]
        best == CHOOSE k \in 1..Len(moves) :
                    /\ \A j \in 1..Len(moves) : value[j] <= value[k]
                    /\ \A j \in 1..(k - 1) : value[j] < value[k]
    IN  IF Len(moves) = 0 THEN null
        ELSE IF value[best] > heuristicEvaluatePositionTwice(gameState)
        THEN moves[best]
        ELSE null

\* C24: the heuristic mover returns the first generated slide of the
\* greatest evaluation over all legal slides when that evaluation is
\* greater than the current position's, and pass otherwise. The loop stops
\* after the first slide whose evaluation exceeds currentScore + 20, so on a
\* nearly full board the slides after it are never evaluated.
C24_HeuristicReturnsBestOfAllSlides ==
    returned.fn = "heuristicOrderNextTurn"
        => returned.value = formatOrderMove(BestOfAllSlides(args.gameState))

\* C25: a row with R, one empty cell, R counts as one almost complete
\* opportunity however many of its other cells are empty, and putting
\* another color on the cell between the R's gives evaluatePatternBreaking a
\* value greater than 5. analyzeSequencePotential counts a line only when
\* the whole line has exactly one empty cell: the row R _ R _ _ _ _ has five,
\* counts for nothing, and the value is 0.
C25_GapBetweenPairIsAlmostComplete ==
    returned.fn = "evaluatePatternBreaking"
        => /\ returned.rowPotential.almostComplete = 1
           /\ returned.value > 5

\* C26: every cell lies in the scanned region of exactly one of the 9 zones,
\* and the region scanned for a cell's zone is the set of cells of that
\* zone. getZone puts rows 0-2, 3-4, 5-6 in zone rows 0, 1, 2, while
\* getColorsInZone scans rows 0-2, 2-4, 4-6: cell 14 (row 2) is scanned for
\* zones 0 and 3.
C26_ZonesTileTheBoard ==
    returned.fn = "getColorsInZone"
        => /\ Cardinality({z \in 0..8 : args.position \in zoneCells(z)}) = 1
           /\ returned.scanned
                  = {q \in Cells : getZone(q) = returned.zone}

\* the board scores after each legal slide, in generation order
ScoresAfterSlides(state) ==
    LET moves == getAllLegalMoves(state)
    IN  [k \in 1..Len(moves) |->
            calculateFullBoardScore(applyMove(state, moves[k]))]

\* C27: estimateOrderBestMove(b) is the greatest of the board score of b
\* and the board scores after every legal slide of b, also when b has more
\* than 50 legal slides.
C27_EstimateIsMaxOverAllSlides ==
    returned.fn = "estimateOrderBestMove"
        => returned.value
               = SetMax({calculateFullBoardScore(args.state)}
                            \cup Range(ScoresAfterSlides(args.state)))

\* more than 50 slides, and none of the first 50 generated reaches the
\* estimate
C27_Witness ==
    /\ returned.fn = "estimateOrderBestMove"
    /\ Len(ScoresAfterSlides(args.state)) > 50
    /\ returned.value > calculateFullBoardScore(args.state)
    /\ \A k \in 1..50 : ScoresAfterSlides(args.state)[k] < returned.value

\* the number of tokens of the color on the board
ColorCount(state, c) == Cardinality({i \in Cells : state[i] = c})

\* at most 7 tokens of every color
WithinBag(state) ==
    \A c \in Range(COLORS) : ColorCount(state, c) <= PIECES_PER_COLOR

PlacerScore(strategy, gameState, p) ==
    IF strategy = "chaosNextTurnSpoiler"
    THEN 0 - evaluateSpoilerPlacement(gameState, p, gameState.nextToken)
    ELSE IF strategy = "chaosNextTurnGap"
    THEN evaluateEntropy(gameState, p, gameState.nextToken)
    ELSE combinedScoreThousandths(gameState, p)

EmptyCells(state) == {p \in Cells : state[p] = ""}

\* the empty cells whose score no empty cell beats
BestCells(strategy, gameState) ==
    LET best == SetMax({PlacerScore(strategy, gameState, p) :
                           p \in EmptyCells(gameState.state)})
    IN  {p \in EmptyCells(gameState.state) :
            PlacerScore(strategy, gameState, p) = best}

\* C29: on a board with an empty cell, each of the three placer strategies
\* returns the address of a cell that is empty in the input board, and that
\* cell is the lowest-indexed of the empty cells with the best score.
C29_PlacerReturnsFirstBestEmptyCell ==
    returned.fn \in PlacerStrategies
        => /\ positionToIndex(returned.move)
                 \in EmptyCells(args.gameState.state)
           /\ positionToIndex(returned.move)
                 = SetMin(BestCells(returned.fn, args.gameState))

\* the hybrid strategy has returned on a board where several cells share
\* the best score and the first empty cell is not one of them
C29_Witness ==
    /\ returned.fn = "chaosNextTurnHybrid"
    /\ Cardinality(BestCells(returned.fn, args.gameState)) > 1
    /\ getEmptyPositions(args.gameState.state)[1]
          \notin BestCells(returned.fn, args.gameState)

\* what the client shows and what the server holds: the ids with their
\* completed flags
ClientView ==
    {[id |-> todos[k].id, completed |-> todos[k].completed] :
        k \in 1..Len(todos)}

ServerView == Range(table)

\* C30: once every handler call has ended and every fetch was answered
\* without an error, the todos of the client are the rows of the server's
\* table: the same ids, each with the same completed flag.  A toggleTodo or
\* handleDeleteTodo call sets the todos from those of its closure, so what an
\* addTodo, toggle or delete did in the meantime is lost.
C30_ClientEqualsServerWhenQuiet ==
    (~isLoading /\ calls = {} /\ ~failed) => ClientView = ServerView

=============================================================================
